---- MODULE Spec2Model ----
(***************************************************************************)
(* State-machine model of circuit::CircuitAnalyzer                         *)
(* (src/src/circuit/CircuitAnalyzer.hpp) with the component and topology   *)
(* classes it drives (Component.hpp, BasicComponents.hpp).                 *)
(*                                                                         *)
(* Numbers are kept symbolically.  An impedance or admittance is known by  *)
(* its class (finite non-zero, zero, infinite, NaN) and by the component   *)
(* and frequency it came from; a matrix entry is the sequence of stamps    *)
(* that were accumulated into it; a solution entry is the zero phasor when *)
(* the system is finite with a zero right-hand side and otherwise the      *)
(* uninterpreted k-th entry of the QR solution of that (A, b).             *)
(***************************************************************************)
EXTENDS Integers, Sequences, FiniteSets, TLC

\* ------------------------------------------------------------------ bounds
MaxComps == 2          \* addComponent calls per run
MaxCalls == 2          \* analyze / performAC / performTransient calls per run
MaxPoints == 3         \* largest `points` passed to performAC
MaxStop == 2           \* largest stop_time passed to performTransient (in us)

\* ------------------------------------------------------- program constants
timestep_ == 1         \* CircuitAnalyzer::timestep_ = 1e-6 s, the time unit
NoIndex == -1          \* getNodeIndex: "ground or not found"

NoNode == "nullptr"
UserNodes == {"u0"}    \* a Node the caller made itself (std::make_shared<Node>)
NodeName(i) == "n" \o ToString(i)
AllNodes == {NodeName(i) : i \in 0..(2 * MaxComps - 1)} \cup UserNodes

Range(s) == {s[i] : i \in DOMAIN s}

\* The build of the program: Eigen checks indices with an assertion unless
\* NDEBUG is defined; with NDEBUG an index addresses the column-major buffer.
Builds == {"assert", "release"}
Unknown == "unknown"   \* no out-of-range access has happened yet

\* ------------------------------------------------------------------ values
\* Complex(0.0), the value a Node and a VoltageSource current start with.
Zero == [t |-> "zero", k |-> 0, A |-> <<>>, b |-> <<>>]

\* Frequencies: DC, 10^(e/LogScale) Hz, or NaN.
DC == [k |-> "dc", e |-> 0]
NaNFreq == [k |-> "nan", e |-> 0]
Hz(e) == [k |-> "ac", e |-> e]

\* ------------------------------------------------------------- components
Shapes ==
    { [type |-> "RESISTOR", frequency |-> 0],
      [type |-> "CAPACITOR", frequency |-> 0],
      [type |-> "INDUCTOR", frequency |-> 0],
      [type |-> "VOLTAGE_SOURCE", frequency |-> 0],
      [type |-> "VOLTAGE_SOURCE", frequency |-> 1] }

\* A freshly constructed two-pin component; p1, p2 are the nodes the caller
\* connected the pins to before addComponent (NoNode: left unconnected).
NewComponent(shape, p1, p2) ==
    [ type |-> shape.type, frequency |-> shape.frequency,
      pins |-> <<p1, p2>>,
      charge_ |-> "0", flux_ |-> "0", current_time_ |-> 0, current_ |-> Zero ]

VARIABLES
    build,                 \* which build runs: fixed for the run, and
                           \* Unknown until the first out-of-range access
    components_, nodes_, voltage_sources_, ground_node_, next_node_id_,
    voltage_,              \* Node::voltage_ of every node
    A_, b_, current_frequency_, time_, frequency_response_,
    pc,                    \* "idle", "ac", "tran" or "crashed"
    loop,                  \* locals of the running performAC / performTransient
    calls,                 \* analysis calls made so far
    last,                  \* what the most recent analyze() call did
    arg,                   \* the pins as passed to the latest addComponent
    pins_,                 \* Node::pins_ of every node: its back-reference list
    callers,               \* the analyze() calls of concurrent callers: where
                           \* each is, and which frequency it asked for / got
    sensitivity,           \* the latest SensitivityAnalyzer::analyzeSensitivity
                           \* call: its arguments, how it ended, its results
    designed,              \* the latest FilterDesigner::designFilter call: the
                           \* specification passed and the components returned
    response,              \* the FilterResponse the latest
                           \* calculateBandwidthAndQ call worked on
    parameters_,           \* RFOptimizer::parameters_
    objectives_,           \* RFOptimizer::objectives_
    run,                   \* the optimizer call in progress: its arguments,
                           \* its locals and, once it returned, its result
    evaluated,             \* the evaluateFitness calls made since the latest
                           \* optimizer call started (or the latest call made
                           \* on its own)
    previous               \* what the caller passed to the optimizer call
                           \* before this one, and what it got back

vars == << build, components_, nodes_, voltage_sources_, ground_node_,
           next_node_id_, voltage_, A_, b_, current_frequency_, time_,
           frequency_response_, pc, loop, calls, last, arg, pins_,
           callers, sensitivity, designed, response, parameters_,
           objectives_, run, evaluated, previous >>

circuit == << components_, nodes_, voltage_sources_, ground_node_, next_node_id_ >>
solver == << voltage_, A_, b_, current_frequency_ >>
designer == << designed, response >>
optimizer == << parameters_, objectives_, run, evaluated, previous >>
analysis == << build, circuit, solver, time_, frequency_response_, pc, loop,
               calls, last, arg, pins_, callers, sensitivity >>

\* ---------------------------------------------------------------- topology
\* The loop of addComponent over the pins, from pin i on: a pin without a
\* node gets a new Node named "n<next_node_id_++>", is connected to it, and
\* the node is pushed onto nodes_.  st = [pins, nodes, next].
KeepId(id) == id

\* next_node_id_++ (line 22): the id the next created node will get.
NextId(id) == id + 1

RECURSIVE ConnectPins(_, _)
ConnectPins(st, i) ==
    IF i > Len(st.pins) THEN st
    ELSE IF st.pins[i] = NoNode
         THEN LET node == NodeName(st.next)
              IN  ConnectPins([ pins |-> [st.pins EXCEPT ![i] = node],
                                nodes |-> Append(st.nodes, node),
                                next |-> NextId(st.next) ], i + 1)
         ELSE ConnectPins(st, i + 1)

\* void Pin::connectTo(node): node_ = node.  refs are the Node::pins_ lists,
\* which the call leaves alone (Node::addPin is called from nowhere).
connectTo(refs, pin, node) == refs

\* The back-reference lists once the two pins of component number c are
\* connected, by the caller before addComponent or by addComponent itself.
BackReferences(refs, pins, c) ==
    connectTo(connectTo(refs, <<c, 1>>, pins[1]), <<c, 2>>, pins[2])

PushSource(sources, component, index) ==
    IF component.type = "VOLTAGE_SOURCE" THEN Append(sources, index) ELSE sources

\* What addComponent registers in voltage_sources_: nothing (the vector is
\* declared, read by buildMNA and solve, and never pushed to).
RegisterSource(sources, component, index) == sources

\* void addComponent(std::shared_ptr<Component> component)
addComponent(component) ==
    LET st == ConnectPins([ pins |-> component.pins, nodes |-> nodes_,
                            next |-> next_node_id_ ], 1)
        added == [component EXCEPT !.pins = st.pins]
    IN  /\ components_' = Append(components_, added)
        /\ nodes_' = st.nodes
        /\ next_node_id_' = st.next
        /\ voltage_sources_' =
               RegisterSource(voltage_sources_, added, Len(components_) + 1)
        /\ pins_' = BackReferences(pins_, st.pins, Len(components_) + 1)
        /\ UNCHANGED ground_node_

\* void setGroundNode(std::shared_ptr<Node> node)
setGroundNode(node) ==
    /\ ground_node_' = node
    /\ UNCHANGED << components_, nodes_, voltage_sources_, next_node_id_ >>

\* The position of `node` in `nodes`, 0-based, or NoIndex.
RECURSIVE FindNode(_, _, _)
FindNode(nodes, node, i) ==
    IF i > Len(nodes) THEN NoIndex
    ELSE IF nodes[i] = node THEN i - 1
    ELSE FindNode(nodes, node, i + 1)

\* int getNodeIndex(std::shared_ptr<Node> node)
getNodeIndex(nodes, ground, node) ==
    IF node = ground THEN NoIndex ELSE FindNode(nodes, node, 1)

\* std::vector<Complex> getNodeVoltages() const
getNodeVoltages(nodes, voltage) == [i \in 1..Len(nodes) |-> voltage[nodes[i]]]

\* ------------------------------------------------- impedance and admittance
\* Component::getImpedance(frequency) of component number c: the class of the
\* value returned.  A resistor's resistance is finite and non-zero.
getImpedance(component, c, f) ==
    LET cls ==
          CASE component.type = "RESISTOR" -> "finite"
            [] component.type = "CAPACITOR" ->
                 IF f.k = "dc" THEN "inf"            \* Complex(INFINITY, 0)
                 ELSE IF f.k = "ac" THEN "finite"    \* Complex(0, -xc)
                 ELSE "nan"
            [] component.type = "INDUCTOR" ->
                 IF f.k = "dc" THEN "zero"           \* Complex(0, 2*pi*0*L)
                 ELSE IF f.k = "ac" THEN "finite"
                 ELSE "nan"
            [] OTHER -> "zero"                       \* ideal voltage source
    IN  [cls |-> cls, c |-> c, f |-> f]

\* Complex(1.0) / z: 1/inf is 0, 1/0 is (inf, nan).
Reciprocal(z) ==
    [z EXCEPT !.cls = CASE z.cls = "finite" -> "finite"
                        [] z.cls = "inf" -> "zero"
                        [] OTHER -> "nan"]

\* VoltageSource::getVoltageAcross(): the commanded phasor.  With parameter
\* frequency 0 it is (V, 0); otherwise V * exp(j * omega * current_time_).
getVoltageAcross(component, c) ==
    [t |-> "volt", c |-> c,
     time |-> IF component.frequency = 0 THEN 0 ELSE component.current_time_]

\* ------------------------------------------------------------ MNA assembly
\* The element of a one-element set: The({F(x) : x \in {e}}) is F(e) with e
\* evaluated once.
The(S) == CHOOSE x \in S : TRUE

Cells(size) == (0..(size - 1)) \X (0..(size - 1))
NoCell == << >>

\* Where a write to A_(r, c) lands in a size x size column-major matrix
\* when the index is not checked: inside the buffer, or outside it.
StampTarget(size, r, c) ==
    IF r \in 0..(size - 1) /\ c \in 0..(size - 1) THEN <<r, c>>
    ELSE LET lin == r + c * size
         IN  IF lin >= 0 /\ lin < size * size
             THEN <<lin % size, lin \div size>>
             ELSE NoCell

\* One access A_(r, c) op y, op one of "+=", "-=", "=".
Access(r, c, op, y) == [r |-> r, c |-> c, op |-> op, y |-> y]

\* buildMNA, lines 93-109: the accesses made for component number i.
ConductanceStamps(component, i, nodes, ground, f) ==
    LET y == Reciprocal(getImpedance(component, i, f))
        n1 == getNodeIndex(nodes, ground, component.pins[1])
        n2 == getNodeIndex(nodes, ground, component.pins[2])
    IN  IF component.type = "VOLTAGE_SOURCE" THEN << >>
        ELSE (IF n1 >= 0 THEN << Access(n1, n1, "+=", y) >> ELSE << >>)
          \o (IF n1 >= 0 /\ n2 >= 0 THEN << Access(n1, n2, "-=", y) >> ELSE << >>)
          \o (IF n2 >= 0 THEN << Access(n2, n2, "+=", y) >> ELSE << >>)
          \o (IF n2 >= 0 /\ n1 >= 0 THEN << Access(n2, n1, "-=", y) >> ELSE << >>)

\* buildMNA, lines 92-110: for (const auto& component : components_).
RECURSIVE ConductanceLoop(_, _, _, _, _)
ConductanceLoop(comps, nodes, ground, f, i) ==
    IF i > Len(comps) THEN << >>
    ELSE ConductanceStamps(comps[i], i, nodes, ground, f)
           \o ConductanceLoop(comps, nodes, ground, f, i + 1)

One(k) == [cls |-> "finite", c |-> 0, f |-> DC, k |-> k]

\* buildMNA, lines 115-127: the accesses made for a source at row vsi.
SourceStamps(vs, vsi, nodes, ground) ==
    LET n1 == getNodeIndex(nodes, ground, vs.pins[1])
        n2 == getNodeIndex(nodes, ground, vs.pins[2])
    IN     (IF n1 >= 0 THEN << Access(n1, vsi, "=", One(1)),
                               Access(vsi, n1, "=", One(1)) >> ELSE << >>)
        \o (IF n2 >= 0 THEN << Access(n2, vsi, "=", One(-1)),
                               Access(vsi, n2, "=", One(-1)) >> ELSE << >>)

\* The row and column of the j-th voltage source: int vsi = n; ... vsi++.
SourceRow(nodes, j) == (Len(nodes) - 1) + (j - 1)

\* buildMNA, lines 113-132: for (const auto& vs : voltage_sources_).
RECURSIVE SourceLoop(_, _, _, _, _)
SourceLoop(comps, sources, nodes, ground, j) ==
    IF j > Len(sources) THEN << >>
    ELSE SourceStamps(comps[sources[j]], SourceRow(nodes, j), nodes, ground)
           \o SourceLoop(comps, sources, nodes, ground, j + 1)

\* buildMNA, line 130: b_(vsi) = vs->getVoltageAcross().
RightHandSide(comps, sources, nodes, size) ==
    [k \in 0..(size - 1) |->
        IF \E j \in 1..Len(sources) : SourceRow(nodes, j) = k
        THEN LET j == CHOOSE j \in 1..Len(sources) : SourceRow(nodes, j) = k
             IN  getVoltageAcross(comps[sources[j]], sources[j])
        ELSE Zero]

\* What the first k accesses leave in one cell: the terms accumulated since
\* the cell was zeroed or last assigned.
RECURSIVE Entry(_, _, _, _)
Entry(ops, size, cell, k) ==
    IF k = 0 THEN << >>
    ELSE IF StampTarget(size, ops[k].r, ops[k].c) # cell
         THEN Entry(ops, size, cell, k - 1)
    ELSE IF ops[k].op = "=" THEN << [op |-> "=", y |-> ops[k].y] >>
    ELSE Append(Entry(ops, size, cell, k - 1),
                [op |-> ops[k].op, y |-> ops[k].y])

InRange(size, r, c) == r \in 0..(size - 1) /\ c \in 0..(size - 1)

\* void buildMNA(): A_ and b_ are zeroed at size n + m and then stamped.
\* used: the index pairs accessed; oob: one of them was outside the matrix.
buildMNA(comps, sources, nodes, ground, f) ==
    LET size == (Len(nodes) - 1) + Len(sources)
    IN  The({ [ size |-> size,
                A |-> [cell \in Cells(size) |-> Entry(ops, size, cell, Len(ops))],
                b |-> RightHandSide(comps, sources, nodes, size),
                oob |-> \E k \in DOMAIN ops : ~InRange(size, ops[k].r, ops[k].c),
                used |-> {<<ops[k].r, ops[k].c>> : k \in DOMAIN ops} ]
              : ops \in { ConductanceLoop(comps, nodes, ground, f, 1)
                            \o SourceLoop(comps, sources, nodes, ground, 1) } })

\* -------------------------------------------------------------------- solve
AFinite(A) ==
    \A cell \in DOMAIN A :
        \A i \in DOMAIN A[cell] : A[cell][i].y.cls \in {"finite", "zero"}

BZero(b) == \A k \in DOMAIN b : b[k] = Zero

\* A_.colPivHouseholderQr().solve(b_).  The QR solve of a finite system with
\* a zero right-hand side is exactly the zero vector (also when A is rank
\* deficient); any other solution entry is left uninterpreted: entry k of the
\* solution of that (A, b).
Solve(A, b, size) ==
    The({ [k \in 0..(size - 1) |->
              IF zero THEN Zero ELSE [t |-> "sol", k |-> k, A |-> A, b |-> b]]
          : zero \in {BZero(b) /\ AFinite(A)} })

\* solve(), lines 139-142: x(i) goes to nodes_[i] for i = 0 .. nodes_.size()-2.
WriteBackNodes(nodes) == {<<nodes[i], i - 1>> : i \in 1..(Len(nodes) - 1)}

\* solve(), lines 145-148: x(vsi++) goes to the sources, vsi from size()-1.
WriteBackSources(nodes, sources) ==
    {<<sources[j], SourceRow(nodes, j)>> : j \in 1..Len(sources)}

\* Node voltages after solve(); x is the solution vector.
solveVoltages(x, nodes, voltage) ==
    [node \in AllNodes |->
        IF \E w \in WriteBackNodes(nodes) : w[1] = node
        THEN x[(CHOOSE w \in WriteBackNodes(nodes) : w[1] = node)[2]]
        ELSE voltage[node]]

\* Components after solve(): the sources carry their solved current.
solveCurrents(x, nodes, sources, comps) ==
    [c \in 1..Len(comps) |->
        IF \E w \in WriteBackSources(nodes, sources) : w[1] = c
        THEN [comps[c] EXCEPT !.current_ =
                 x[(CHOOSE w \in WriteBackSources(nodes, sources) : w[1] = c)[2]]]
        ELSE comps[c]]

\* ------------------------------------------------------------- updateState
\* The voltage across the pins is exactly zero when both node phasors are.
AcrossZero(component, voltage) ==
    voltage[component.pins[1]] = Zero /\ voltage[component.pins[2]] = Zero

\* Component::updateState(timestep) of each concrete class.  A capacitor adds
\* |v / Z(0)| * timestep to charge_, an inductor |v| * timestep to flux_ (both
\* add 0 when v is 0), a voltage source adds timestep to current_time_.
updateState(component, timestep, voltage) ==
    CASE component.type = "CAPACITOR" ->
           [component EXCEPT !.charge_ =
               IF AcrossZero(component, voltage) THEN @ ELSE "indeterminate"]
      [] component.type = "INDUCTOR" ->
           [component EXCEPT !.flux_ =
               IF AcrossZero(component, voltage) THEN @ ELSE "indeterminate"]
      [] component.type = "VOLTAGE_SOURCE" ->
           [component EXCEPT !.current_time_ = @ + timestep]
      [] OTHER -> component

\* for (auto& component : components_) component->updateState(timestep);
UpdateAll(comps, timestep, voltage) ==
    [c \in 1..Len(comps) |-> updateState(comps[c], timestep, voltage)]

UpdateCalls(comps, timestep) == [c \in 1..Len(comps) |-> <<c, timestep>>]

\* What analyze() calls after solve(): updateComponents(), which steps every
\* component by timestep_.
updateComponents(comps, voltage) == UpdateAll(comps, timestep_, voltage)

\* ------------------------------------------------------------------ analyze
NoAnalysis ==
    [ outcome |-> "none", f |-> DC, ground |-> NoNode, nodes |-> << >>,
      sources |-> << >>, size |-> 0, used |-> {}, oob |-> FALSE,
      written |-> {}, currents |-> {}, before |-> << >>, after |-> << >>,
      upd |-> << >>, again |-> FALSE ]

\* void analyze(double frequency): buildMNA(); solve(); updateComponents().
\* With no node at all the matrix size is -1 and solve() indexes an empty
\* vector: the call cannot return.  An out-of-range stamp aborts the assert
\* build; the release build carries on with the stray write.  The report
\* records what the call did: the ground and node list it ran on, the index
\* pairs it stamped, which solution entry went to which node and source, the
\* node voltages before and after, the updateState calls it made, and
\* whether it repeats the previous call (same frequency, both returned).
Aborted(f, oob) ==
    [ crash |-> TRUE, oob |-> oob, A |-> A_, b |-> b_, voltage |-> voltage_,
      comps |-> components_,
      report |-> [NoAnalysis EXCEPT !.outcome = "aborted", !.f = f,
                     !.ground = ground_node_, !.nodes = nodes_, !.oob = oob] ]

Returned(f, bm, x) ==
    The({ [ crash |-> FALSE, oob |-> bm.oob, A |-> bm.A, b |-> bm.b,
            voltage |-> v,
            comps |-> updateComponents(
                         solveCurrents(x, nodes_, voltage_sources_, components_), v),
            report |->
              [ outcome |-> "returned", f |-> f, ground |-> ground_node_,
                nodes |-> nodes_, sources |-> voltage_sources_,
                size |-> bm.size, used |-> bm.used, oob |-> bm.oob,
                written |-> WriteBackNodes(nodes_),
                currents |-> WriteBackSources(nodes_, voltage_sources_),
                before |-> getNodeVoltages(nodes_, voltage_),
                after |-> getNodeVoltages(nodes_, v),
                upd |-> UpdateCalls(components_, timestep_),
                again |-> last.outcome = "returned" /\ last.f = f ] ]
          : v \in {solveVoltages(x, nodes_, voltage_)} })

analyze(f, bld) ==
    IF Len(nodes_) = 0 THEN Aborted(f, FALSE)
    ELSE The({ IF bm.oob /\ bld = "assert" THEN Aborted(f, TRUE)
               ELSE The({ Returned(f, bm, x) : x \in {Solve(bm.A, bm.b, bm.size)} })
               : bm \in { buildMNA(components_, voltage_sources_, nodes_,
                                   ground_node_, f) } })

\* ------------------------------------------------------------- AC sweep
\* Exponents are counted in 1/LogScale decades so that every step
\* (log_stop - log_start) / (points - 1) with points <= MaxPoints is exact.
RECURSIVE Factorial(_)
Factorial(n) == IF n <= 1 THEN 1 ELSE n * Factorial(n - 1)
LogScale == Factorial(MaxPoints)

Decades == {0, 2}          \* start_freq, stop_freq in {1 Hz, 100 Hz}

\* performAC, lines 53-60: the vector `frequencies`.  With points = 1 the step
\* is (log_stop - log_start) / 0 = inf and log_start + 0 * inf is NaN.
Frequencies(sd, td, points) ==
    IF points = 1 THEN << NaNFreq >>
    ELSE LET step == ((td - sd) * LogScale) \div (points - 1)
         IN  [i \in 1..points |-> Hz(sd * LogScale + (i - 1) * step)]

MinKey(keys) == CHOOSE k \in keys : \A o \in keys : k.e <= o.e

\* frequency_response_[freq] = value on a std::map<double, ...>.  operator<
\* is false whenever a NaN is compared, so a NaN key is "equivalent" to the
\* first key it is compared with: on a non-empty map it addresses the entry
\* with the smallest key, and once a NaN key is in the (then one-entry) map
\* every later key addresses that entry.
MapPut(map, freq, value) ==
    LET keys == DOMAIN map
        slot == IF keys = {} THEN freq
                ELSE IF NaNFreq \in keys THEN NaNFreq
                ELSE IF freq.k = "nan" THEN MinKey(keys)
                ELSE freq
    IN  [k \in keys \cup {slot} |-> IF k = slot THEN value ELSE map[k]]

NoLoop == [ kind |-> "none", queue |-> << >>, args |-> << >>, done |-> << >>,
            t |-> 0, stop |-> 0, dt |-> 0 ]

\* ------------------------------------------------------- concurrent callers
\* Two callers (threads) that share one CircuitAnalyzer.  analyze() takes no
\* lock, so their calls interleave statement by statement: the assignment to
\* current_frequency_, buildMNA(), solve(), updateComponents(), and then the
\* caller's own getNodeVoltages().
Callers == {1, 2}

\* at: where each caller is; f: the frequency it passed; assembled, solved:
\* the frequency A_ was last assembled at and the one the node voltages
\* were last solved at; seen: the frequency of the solution a caller read.
NoFreq == [k |-> "none", e |-> 0]

NoCallers ==
    [ at |-> [t \in Callers |-> "out"], f |-> [t \in Callers |-> DC],
      assembled |-> DC, solved |-> DC,
      seen |-> [t \in Callers |-> NoFreq] ]

InFlight == {"entered", "assembled", "solved"}

\* ------------------------------------------------------------------ actions
\* ---------------------------------------------------------------------------
\* FilterDesigner (FilterDesigner.hpp).  Coefficients are real numbers the
\* ladder only passes on, so a coefficient is kept as the term that computes
\* it: which prototype formula, for which index and order, under which
\* denormalisation law.

MaxOrder == 3

LadderTypes == {"LOWPASS", "HIGHPASS"}
Approximations == {"BUTTERWORTH", "CHEBYSHEV_I"}

\* The specifications a caller passes.
FilterSpecifications ==
    [type : LadderTypes, approximation : Approximations, order : 0..MaxOrder,
     passband_freq : {1, 2}, passband_ripple : {1, 3}, impedance : {50, 75}]

NoDesign == [spec |-> [type |-> "none"], components |-> << >>]

\* for (int i = 0; i < order; i++) coeffs.push_back(2 * sin(angle(i, order)))
calculateButterworthCoeffs(order) ==
    [k \in 1..order |-> [g |-> "2 * sin(angle)", i |-> k - 1, order |-> order]]

calculateChebyshevICoeffs(order, ripple) ==
    [k \in 1..order |-> [g |-> "2 * sin(angle) * sinh", i |-> k - 1,
                         order |-> order, ripple |-> ripple]]

calculateCoefficients(spec) ==
    CASE spec.approximation = "BUTTERWORTH" ->
            calculateButterworthCoeffs(spec.order)
      [] spec.approximation = "CHEBYSHEV_I" ->
            calculateChebyshevICoeffs(spec.order, spec.passband_ripple)

denormalizeCoefficients(coeffs, spec) ==
    [k \in DOMAIN coeffs |->
        CASE spec.type = "LOWPASS" ->
                [law |-> "coeff / omega_c", coeff |-> coeffs[k],
                 passband_freq |-> spec.passband_freq]
          [] spec.type = "HIGHPASS" ->
                [law |-> "1 / (coeff * omega_c)", coeff |-> coeffs[k],
                 passband_freq |-> spec.passband_freq]]

\* std::make_shared<Inductor>("L" + to_string(i+1), coeffs[i] * spec.impedance)
MakeInductor(i, coeff, spec) ==
    [type |-> "INDUCTOR", name |-> << "L", i >>,
     inductance |-> [value |-> "coeff * impedance", coeff |-> coeff,
                     impedance |-> spec.impedance]]

\* std::make_shared<Capacitor>("C" + to_string(i+1), coeffs[i] / spec.impedance)
MakeCapacitor(i, coeff, spec) ==
    [type |-> "CAPACITOR", name |-> << "C", i >>,
     capacitance |-> [value |-> "coeff / impedance", coeff |-> coeff,
                      impedance |-> spec.impedance]]

\* The flag is left as it is: the ladder never changes kind.
Unchanged(flag) == flag

\* use_inductor = !use_inductor;  use_capacitor = !use_capacitor;
Negate(flag) == ~flag

\* The loop of createLowPassFilter from (1-based) position i on.
RECURSIVE LowPassLadder(_, _, _, _, _)
LowPassLadder(coeffs, spec, i, use_inductor, components) ==
    IF i > Len(coeffs)
    THEN components
    ELSE LowPassLadder(coeffs, spec, i + 1, Negate(use_inductor),
            Append(components,
                   IF use_inductor THEN MakeInductor(i, coeffs[i], spec)
                                   ELSE MakeCapacitor(i, coeffs[i], spec)))

createLowPassFilter(coeffs, spec) == LowPassLadder(coeffs, spec, 1, TRUE, << >>)

\* The loop of createHighPassFilter from (1-based) position i on.
RECURSIVE HighPassLadder(_, _, _, _, _)
HighPassLadder(coeffs, spec, i, use_capacitor, components) ==
    IF i > Len(coeffs)
    THEN components
    ELSE HighPassLadder(coeffs, spec, i + 1, Negate(use_capacitor),
            Append(components,
                   IF use_capacitor THEN MakeCapacitor(i, coeffs[i], spec)
                                    ELSE MakeInductor(i, coeffs[i], spec)))

createHighPassFilter(coeffs, spec) == HighPassLadder(coeffs, spec, 1, TRUE, << >>)

designFilter(spec) ==
    LET coeffs == calculateCoefficients(spec)
        denorm_coeffs == denormalizeCoefficients(coeffs, spec)
    IN  CASE spec.type = "LOWPASS" -> createLowPassFilter(denorm_coeffs, spec)
          [] spec.type = "HIGHPASS" -> createHighPassFilter(denorm_coeffs, spec)

\* ---------------------------------------------------------------------------
\* RFOptimizer (RFOptimizer.hpp).  Values are reals in the code; here they
\* are integers, with parameter ranges and coefficients chosen so that the
\* arithmetic of the algorithms stays on integers.  A random draw is any of
\* a few sample points of the interval the distribution covers: the engine
\* is seeded from std::random_device (line 34), so nothing the caller passes
\* determines which one comes out.

MaxParams == 1
MaxObjectives == 2

\* (min_value, max_value, initial_value) as passed to addParameter.
ParameterChoices ==
    { [min_value |-> 0, max_value |-> 80, current_value |-> 40],
      [min_value |-> 0, max_value |-> 80, current_value |-> 120],
      [min_value |-> 40, max_value |-> 40, current_value |-> 40] }

\* (type, target_value, weight) as passed to addObjective.
ObjectiveChoices ==
    [type : {"MINIMIZE", "MAXIMIZE", "TARGET"}, target_value : {40},
     weight : {1, 2}]

NoRun == [algorithm |-> "none", at |-> "idle"]

Abs(x) == IF x < 0 THEN -x ELSE x
Min(x, y) == IF x < y THEN x ELSE y
Max(x, y) == IF x < y THEN y ELSE x

\* std::clamp(value, lo, hi) for lo <= hi.
clamp(value, lo, hi) == Min(Max(value, lo), hi)

\* std::uniform_real_distribution<double>(min, max)(rng_): a value of
\* [min, max), or min when the interval is empty.  The sample points are the
\* lower end and the middle.
uniformDist(min, max) ==
    IF min < max THEN {min, (min + max) \div 2} ELSE {min}

\* parameters_.push_back({name, min_value, max_value, initial_value})
addParameter(parameters, parameter) == Append(parameters, parameter)

\* objectives_.push_back({name, type, target_value, weight})
addObjective(objectives, objective) == Append(objectives, objective)

\* The vectors a loop "for (auto& param : vector) param.current_value =
\* draw(param)" can leave behind, draws[j] being the values the draw can
\* give at position j.
Redrawn(vector, draws) ==
    { [j \in DOMAIN vector |-> [vector[j] EXCEPT !.current_value = d[j]]] :
         d \in { e \in [DOMAIN vector -> UNION {draws[j] : j \in DOMAIN vector}] :
                    \A j \in DOMAIN vector : e[j] \in draws[j] } }

DrawInRange(param) == uniformDist(param.min_value, param.max_value)

generateRandomIndividual(parameters) ==
    Redrawn(parameters, [j \in DOMAIN parameters |-> DrawInRange(parameters[j])])

\* The measurement function the caller installed: deterministic, one value
\* per objective.  Objective i measures the first parameter, shifted by
\* 10 * (i - 1) so that objectives do not all see the same value.
measurement_func_(individual, objectives) ==
    [i \in DOMAIN objectives |->
        (IF Len(individual) = 0 THEN 0 ELSE individual[1].current_value)
        + 10 * (i - 1)]

\* A contribution that ignores the objective's type: the weighted magnitude.
Unsigned(obj, value) == Abs(obj.weight * value)

\* One pass of the switch of evaluateFitness (lines 222-232).
Contribution(obj, value) ==
    CASE obj.type = "MINIMIZE" -> -(obj.weight * value)
      [] obj.type = "MAXIMIZE" -> obj.weight * value
      [] obj.type = "TARGET" -> -(obj.weight * Abs(value - obj.target_value))

\* The loop of evaluateFitness from objective i on: the fitness, and the
\* entries of the measurement vector read.
RECURSIVE FitnessLoop(_, _, _, _)
FitnessLoop(objectives, measurements, i, acc) ==
    IF i > Len(objectives)
    THEN acc
    ELSE FitnessLoop(objectives, measurements, i + 1,
            [fitness |-> acc.fitness + Contribution(objectives[i], measurements[i]),
             read |-> Append(acc.read, i)])

\* evaluateFitness(individual): what it was called with, the measurement
\* vectors it obtained (one per call of measurement_func_), the entries it
\* read, and the fitness returned.
evaluateFitness(individual, objectives) ==
    LET measurements == measurement_func_(individual, objectives)
        done == FitnessLoop(objectives, measurements, 1,
                            [fitness |-> 0, read |-> << >>])
    IN  [individual |-> individual, measured |-> << measurements >>,
         read |-> done.read, fitness |-> done.fitness]

\* Another measurement function a caller can install: a response with a
\* notch, 0 where the first parameter is 4 above a multiple of 8 and 10
\* elsewhere, the same for every objective.
notch_func_(individual, objectives) ==
    [i \in DOMAIN objectives |->
        IF Len(individual) = 0 THEN 0
        ELSE IF individual[1].current_value % 8 = 4 THEN 0 ELSE 10]

\* evaluateFitness(individual) on an optimizer whose measurement function is
\* the notch.
evaluateNotch(individual, objectives) ==
    LET measurements == notch_func_(individual, objectives)
        done == FitnessLoop(objectives, measurements, 1,
                            [fitness |-> 0, read |-> << >>])
    IN  [individual |-> individual, measured |-> << measurements >>,
         read |-> done.read, fitness |-> done.fitness]

Fitness(individual, objectives) == evaluateFitness(individual, objectives).fitness

\* The evaluations of every member of a population, in order.
Evaluations(population, objectives) ==
    { evaluateFitness(population[k], objectives) : k \in DOMAIN population }

\* ---------------------------------------------------------------------------
\* optimizeGeneticAlgorithm (RFOptimizer.hpp:52-113).

MaxPop == 3
MaxGen == 2
tournament_size == 3

\* Probabilities, in percent, that a caller passes as a rate.
Rates == {0, 50}

\* The outcomes of "uniformDist(0.0, 1.0) < rate".
Chance(rate) ==
    IF rate <= 0 THEN {FALSE} ELSE IF rate >= 100 THEN {TRUE} ELSE BOOLEAN

\* The populations "for (i < size) population.push_back(generateRandomIndividual())"
\* can build.
RandomPopulation(size, parameters) ==
    [1..size -> generateRandomIndividual(parameters)]

\* fitness[k] for every member, as the evaluation loop fills it.
FitnessOf(population, objectives) ==
    [k \in DOMAIN population |-> Fitness(population[k], objectives)]

\* static_cast<size_t>(uniformDist(0, population.size() - 1)), 1-based here:
\* the draw is a real of [0, size - 1) and the cast drops its fraction, so the
\* indices are 0 .. size - 2, or 0 alone when the interval is empty.
TournamentDraws(size) == IF size >= 2 THEN 1..(size - 1) ELSE {1}

\* A scan that keeps its first entrant whatever the fitness of the others.
FirstEntrant(tournament, fitness, i, winner) == winner

\* The scan of tournamentSelect (lines 250-258): the first entrant wins
\* unless a later one is strictly fitter.
RECURSIVE TournamentWinner(_, _, _, _)
TournamentWinner(tournament, fitness, i, winner) ==
    IF i > Len(tournament)
    THEN winner
    ELSE TournamentWinner(tournament, fitness, i + 1,
            IF fitness[tournament[i]] > fitness[winner] THEN tournament[i]
                                                        ELSE winner)

\* The individuals tournamentSelect can return.
tournamentSelect(population, fitness) ==
    { population[TournamentWinner(tournament, fitness, 2, tournament[1])] :
         tournament \in [1..tournament_size -> TournamentDraws(Len(population))] }

\* crossover(child1, child2): each position is swapped or not.
crossover(child1, child2) ==
    { << [j \in DOMAIN child1 |-> IF swap[j] THEN child2[j] ELSE child1[j]],
         [j \in DOMAIN child2 |-> IF swap[j] THEN child1[j] ELSE child2[j]] >> :
         swap \in [DOMAIN child1 -> Chance(50)] }

\* mutate(individual, mutation_rate): each position is redrawn or kept.
mutate(individual, mutation_rate) ==
    Redrawn(individual,
            [j \in DOMAIN individual |->
               (IF TRUE \in Chance(mutation_rate)
                THEN DrawInRange(individual[j]) ELSE {})
               \cup (IF FALSE \in Chance(mutation_rate)
                     THEN {individual[j].current_value} ELSE {})])

\* The pairs (child1, child2) one pass of the selection loop can produce
\* (lines 76-89).
Offspring(population, fitness, mutation_rate, crossover_rate) ==
    UNION { UNION { { << m1, m2 >> : m1 \in mutate(pair[1], mutation_rate),
                                     m2 \in mutate(pair[2], mutation_rate) } :
                    pair \in (IF FALSE \in Chance(crossover_rate)
                              THEN { << parent1, parent2 >> } ELSE {})
                             \cup (IF TRUE \in Chance(crossover_rate)
                                   THEN crossover(parent1, parent2) ELSE {}) } :
            parent1 \in tournamentSelect(population, fitness),
            parent2 \in tournamentSelect(population, fitness) }

\* The populations the loop "while (new_population.size() < population_size)"
\* can end with, given what it has pushed so far.
RECURSIVE NewPopulations(_, _, _)
NewPopulations(new_population, population_size, offspring) ==
    IF Len(new_population) >= population_size
    THEN { new_population }
    ELSE UNION { NewPopulations(
                    IF Len(new_population) + 1 < population_size
                    THEN new_population \o << pair[1], pair[2] >>
                    ELSE Append(new_population, pair[1]),
                    population_size, offspring) : pair \in offspring }

\* The scan "if (fitness > best_fitness) best_solution = individual" from
\* member i on: the first member of greatest fitness, or the empty vector.
RECURSIVE BestOf(_, _, _, _)
BestOf(population, fitness, i, best) ==
    IF i > Len(population)
    THEN IF best = 0 THEN << >> ELSE population[best]
    ELSE BestOf(population, fitness, i + 1,
                IF best = 0 \/ fitness[i] > fitness[best] THEN i ELSE best)

\* ---------------------------------------------------------------------------
\* optimizeParticleSwarm (RFOptimizer.hpp:115-185).

\* A best fitness so far: -std::numeric_limits<double>::infinity() until a
\* fitness is stored, then that fitness.
NegInf == << >>
Stored(fitness) == << fitness >>
Exceeds(x, y) == IF y = NegInf THEN TRUE ELSE x > y[1]

\* Inertia weights and acceleration coefficients a caller passes.
Inertias == {0, 1}
Accelerations == {2}

DrawVelocity(param) ==
    LET range == param.max_value - param.min_value
    IN  uniformDist(-(range \div 10), range \div 10)

generateRandomVelocity(parameters) ==
    Redrawn(parameters, [j \in DOMAIN parameters |-> DrawVelocity(parameters[j])])

\* uniformDist(0.0, 1.0), in percent.
UnitDraws == uniformDist(0, 100)

\* The swarms the initialisation loop (lines 131-143) can build from
\* particle i on.
RECURSIVE InitSwarm(_, _, _, _)
InitSwarm(swarm, i, swarm_size, objectives) ==
    IF i > swarm_size
    THEN { swarm }
    ELSE UNION { UNION {
            LET fitness == Fitness(position, objectives)
                improved == Exceeds(fitness, swarm.global_best_fitness)
            IN  InitSwarm(
                   [positions |-> Append(swarm.positions, position),
                    velocities |-> Append(swarm.velocities, velocity),
                    best_positions |-> Append(swarm.best_positions, position),
                    best_fitnesses |-> Append(swarm.best_fitnesses, fitness),
                    global_best |-> IF improved THEN position
                                                ELSE swarm.global_best,
                    global_best_fitness |-> IF improved THEN Stored(fitness)
                                            ELSE swarm.global_best_fitness,
                    parameters |-> swarm.parameters],
                   i + 1, swarm_size, objectives) :
            velocity \in generateRandomVelocity(swarm.parameters) } :
            position \in generateRandomIndividual(swarm.parameters) }

\* The velocity and position of particle i after the loop over j of lines
\* 149-168, for the draws r[j] = << r1, r2 >> (percent).
MoveParticle(state, i, r) ==
    LET velocity == [j \in DOMAIN state.velocities[i] |->
            [state.velocities[i][j] EXCEPT !.current_value =
                state.w * @
                + (state.c1 * r[j][1] *
                     (state.best_positions[i][j].current_value -
                      state.positions[i][j].current_value)) \div 100
                + (state.c2 * r[j][2] *
                     (state.global_best[j].current_value -
                      state.positions[i][j].current_value)) \div 100]]
        position == [j \in DOMAIN state.positions[i] |->
            [state.positions[i][j] EXCEPT !.current_value =
                clamp(@ + velocity[j].current_value,
                      state.positions[i][j].min_value,
                      state.positions[i][j].max_value)]]
    IN  [velocity |-> velocity, position |-> position]

\* Lines 171-180: the bests after particle i moved to its new position.
UpdateBests(state, i, moved, objectives) ==
    LET fitness == Fitness(moved.position, objectives)
        better == fitness > state.best_fitnesses[i]
        best == better /\ Exceeds(fitness, state.global_best_fitness)
    IN  [state EXCEPT
            !.positions[i] = moved.position,
            !.velocities[i] = moved.velocity,
            !.best_fitnesses[i] = IF better THEN fitness ELSE @,
            !.best_positions[i] = IF better THEN moved.position ELSE @,
            !.global_best_fitness = IF best THEN Stored(fitness) ELSE @,
            !.global_best = IF best THEN moved.position ELSE @]

\* ---------------------------------------------------------------------------
\* DifferentialEvolution::optimize (AdvancedOptimizer.hpp:16-74).

MaxDEPop == 4
MaxDEGen == 1

\* Differential weights F a caller passes.
DifferentialWeights == {1}

\* uniformInt(lo, hi): an integer of lo..hi.
uniformInt(lo, hi) == lo..hi

\* A test that compares the donors with each other only.
Pairwise(r, i) == r[1] # r[2] /\ r[2] # r[3] /\ r[1] # r[3]

\* The test of the do-while of lines 36-40, negated: the three donors are
\* pairwise distinct and none is the target i.
Distinct(r, i) ==
    /\ r[1] # r[2] /\ r[2] # r[3] /\ r[1] # r[3]
    /\ r[1] # i /\ r[2] # i /\ r[3] # i

\* The triples one pass of the do-while body can draw (0-based as in the
\* code; i is 0-based too).
Donors(population_size) ==
    uniformInt(0, population_size - 1) \X uniformInt(0, population_size - 1)
        \X uniformInt(0, population_size - 1)

\* The trial vectors of lines 43-60 for donors r and forced position R:
\* position j is recombined when the draw says so or j = R.
Trials(population, i, r, R, F, CR) ==
    { [j \in DOMAIN population[i + 1] |->
         IF cross[j] \/ j - 1 = R
         THEN [population[i + 1][j] EXCEPT !.current_value =
                  clamp(population[r[1] + 1][j].current_value
                        + F * (population[r[2] + 1][j].current_value
                               - population[r[3] + 1][j].current_value),
                        population[i + 1][j].min_value,
                        population[i + 1][j].max_value)]
         ELSE population[i + 1][j]] :
      cross \in [DOMAIN population[i + 1] -> Chance(CR)] }

\* std::max_element over fitness: the first index of greatest fitness.
RECURSIVE MaxElement(_, _, _)
MaxElement(fitness, i, best) ==
    IF i > Len(fitness) THEN best
    ELSE MaxElement(fitness, i + 1,
                    IF fitness[i] > fitness[best] THEN i ELSE best)

\* ---------------------------------------------------------------------------
\* SimulatedAnnealing::optimize (AdvancedOptimizer.hpp:82-125).

MaxBatch == 2

\* Temperatures and cooling rates (in percent) a caller passes; with these the
\* products temp * cooling_rate are whole numbers.
InitialTemps == {100}
FinalTemps == {25, 100}
CoolingRates == {50, 100}

\* uniformReal(lo, hi): a real of [lo, hi).  The sample points are the lower
\* end, the middle and a point of the upper half.
uniformReal(lo, hi) ==
    IF lo < hi THEN {lo, (lo + hi) \div 2, ((lo + hi) \div 2 + hi) \div 2}
    ELSE {lo}

\* generateNeighbor(current, temp): every parameter is moved by a draw of
\* (-range, range), range = (max - min) * temp / 100, and clamped.
generateNeighbor(current, temp) ==
    Redrawn(current,
            [j \in DOMAIN current |->
               LET range == ((current[j].max_value - current[j].min_value) * temp)
                               \div 100
               IN  { clamp(current[j].current_value + d,
                           current[j].min_value, current[j].max_value) :
                        d \in uniformReal(-range, range) }])

\* double energy = -evaluateFitness(solution)
Energy(solution, objectives) == -Fitness(solution, objectives)

\* The outcomes of "uniformReal(0, 1) < std::exp(-delta_e / temp)" for
\* temp > 0: the draw is below 1, which the bound reaches when delta_e <= 0.
Metropolis(delta_e, temp) == IF delta_e <= 0 THEN {TRUE} ELSE BOOLEAN

\* The outcomes of the test of line 108.
Accepts(delta_e, temp) ==
    IF delta_e < 0 THEN {TRUE} ELSE Metropolis(delta_e, temp)

\* A test that never finds the current solution better than the best.
NeverBetter(current_energy, best_energy) == FALSE

\* The test of line 113.
Better(current_energy, best_energy) == current_energy < best_energy

\* ---------------------------------------------------------------------------
\* NelderMead::optimize (AdvancedOptimizer.hpp:153-261), on an optimizer whose
\* measurement function is the notch.

MaxIterations == 2

\* Coefficients in percent: alpha, gamma, rho, sigma as the defaults 1.0, 2.0,
\* 0.5, 0.5; tolerances a caller passes.
Reflections == {100}
Expansions == {200}
Contractions == {50}
Shrinks == {50}
Tolerances == {0, 1}

\* double value = -evaluateFitness(point)
Value(point, objectives) == -evaluateNotch(point, objectives).fitness

\* The vertex made from simplex[0] for parameter i (lines 171-182).
OtherPoint(first, i) ==
    [first EXCEPT ![i].current_value =
        clamp(@ + (first[i].max_value - first[i].min_value) \div 20,
              first[i].min_value, first[i].max_value)]

\* The initial simplex for a first point.
InitialSimplex(first) ==
    << first >> \o [i \in 1..Len(first) |-> OtherPoint(first, i)]

\* The results std::sort can give for the index vector (1-based): the
\* permutations along which the values do not decrease.
Orders(values) ==
    { order \in [DOMAIN values -> DOMAIN values] :
         /\ \A a, b \in DOMAIN values : a # b => order[a] # order[b]
         /\ \A a, b \in DOMAIN values :
               a < b => values[order[a]] <= values[order[b]] }

\* The sum over order[1 .. upto] of coordinate j, starting from order[i].
RECURSIVE CoordinateSum(_, _, _, _, _)
CoordinateSum(simplex, order, j, i, upto) ==
    IF i > upto THEN 0
    ELSE simplex[order[i]][j].current_value
         + CoordinateSum(simplex, order, j, i + 1, upto)

\* The centroid of every vertex but the worst (lines 198-206).
Centroid(simplex, order) ==
    [j \in DOMAIN simplex[order[1]] |->
        [simplex[order[1]][j] EXCEPT !.current_value =
            CoordinateSum(simplex, order, j, 1, Len(order) - 1)
               \div (Len(order) - 1)]]

\* reflect(centroid, point, coefficient), coefficient in percent.
reflect(centroid, point, coefficient) ==
    [i \in DOMAIN centroid |->
        [centroid[i] EXCEPT !.current_value =
            clamp(centroid[i].current_value
                  + (coefficient * (centroid[i].current_value
                                    - point[i].current_value)) \div 100,
                  centroid[i].min_value, centroid[i].max_value)]]

\* A shrink toward the vertex `toward`, which stays (the others move).
ShrinkToward(simplex, toward, sigma) ==
    [i \in DOMAIN simplex |->
        IF i = toward THEN simplex[i]
        ELSE [j \in DOMAIN simplex[i] |->
                [simplex[i][j] EXCEPT !.current_value =
                    simplex[toward][j].current_value
                    + (sigma * (simplex[i][j].current_value
                                - simplex[toward][j].current_value)) \div 100]]]

\* The shrink of lines 238-247: every vertex but simplex[0] moves toward
\* simplex[0].
Shrink(simplex, sigma) == ShrinkToward(simplex, 1, sigma)

\* One pass of the main loop after the convergence test (lines 198-249), for
\* the order the sort gave: the new simplex and values, the operation made,
\* and the points evaluated.
Iterate(simplex, values, order, alpha, gamma, rho, sigma, objectives) ==
    LET n == Len(order)
        worst == order[n]
        centroid == Centroid(simplex, order)
        reflected == reflect(centroid, simplex[worst], alpha)
        reflected_value == Value(reflected, objectives)
        expanded == reflect(centroid, simplex[worst], gamma)
        expanded_value == Value(expanded, objectives)
        contracted == reflect(centroid, simplex[worst], -rho)
        contracted_value == Value(contracted, objectives)
        shrunk == Shrink(simplex, sigma)
        Replaced(point, value, kind, tried) ==
            [simplex |-> [simplex EXCEPT ![worst] = point],
             values |-> [values EXCEPT ![worst] = value],
             kind |-> kind, tried |-> tried]
    IN  IF reflected_value < values[order[n - 1]]
           /\ reflected_value >= values[order[1]]
        THEN Replaced(reflected, reflected_value, "reflection", {reflected})
        ELSE IF reflected_value < values[order[1]]
        THEN IF expanded_value < reflected_value
             THEN Replaced(expanded, expanded_value, "expansion",
                           {reflected, expanded})
             ELSE Replaced(reflected, reflected_value, "expansion",
                           {reflected, expanded})
        ELSE IF contracted_value < values[worst]
        THEN Replaced(contracted, contracted_value, "contraction",
                      {reflected, contracted})
        ELSE [simplex |-> shrunk,
              values |-> [i \in DOMAIN values |->
                            IF i = 1 THEN values[1]
                            ELSE Value(shrunk[i], objectives)],
              kind |-> "shrink",
              tried |-> {reflected, contracted}
                        \cup {shrunk[i] : i \in 2..Len(shrunk)}]

\* double range = values[order.back()] - values[order.front()]
Spread(values, order) == values[order[Len(order)]] - values[order[1]]

\* std::min_element over values: the first index of least value.
RECURSIVE MinElement(_, _, _)
MinElement(values, i, best) ==
    IF i > Len(values) THEN best
    ELSE MinElement(values, i + 1,
                    IF values[i] < values[best] THEN i ELSE best)

\* ---------------------------------------------------------------------------
\* SensitivityAnalyzer::analyzeSensitivity (AdvancedAnalysis.hpp:226-279).

MaxNames == 2

\* The parameter names a caller passes; tolerances has an entry for each.
ParameterNames == {"R1.resistance", "C1.capacitance"}
NameLists == UNION { [1..n -> ParameterNames] : n \in 0..MaxNames }

NoSensitivity == [outcome |-> "none", parameters |-> << >>, results |-> << >>]

\* std::shared_ptr<Component> findComponentByParameter(param): return nullptr.
NoComponent == "nullptr"
findComponentByParameter(param) == NoComponent

\* component->getParameter(name): on a null pointer the behaviour is
\* undefined; the process is stopped by the access, or goes on in any way.
Dereference(component) ==
    IF component = NoComponent THEN {"crashed", "undefined"} ELSE {"ok"}

\* The loop of lines 237-269 from parameter i on: how the call ends and the
\* results pushed.  A component that can be read would give one result per
\* name, in order.
RECURSIVE SensitivityLoop(_, _, _)
SensitivityLoop(parameters, i, results) ==
    IF i > Len(parameters)
    THEN { [outcome |-> "returned", results |-> results] }
    ELSE UNION { IF way = "ok"
                 THEN SensitivityLoop(parameters, i + 1,
                                      Append(results, parameters[i]))
                 ELSE { [outcome |-> way, results |-> results] } :
                 way \in Dereference(findComponentByParameter(parameters[i])) }

\* ---------------------------------------------------------------------------
\* FilterDesigner::calculateBandwidthAndQ (FilterDesigner.hpp:252-269), on the
\* FilterResponse that analyzeFilter has filled with one magnitude per
\* frequency.  Magnitudes are counted in units of 0.05 dB.

MaxSamples == 3

ThreeDB == 60      \* the 3 of "max_mag - 3"
Window == 2        \* the 0.1 of "< 0.1"

\* The magnitudes a sample can have: the peak, 2.95 dB, 3 dB and 3.1 dB below
\* it, and far below.
Magnitudes == {0, -59, -60, -62, -120}

\* The frequency list the caller passes, n samples long.
SampleFrequencies(n) == [i \in 1..n |-> 10 * i]

\* A double that was declared and not assigned, and one that was assigned.
Unset == << >>
Set(value) == << value >>

\* FilterResponse response; (no member has an initialiser)
NoResponse == [outcome |-> "none", frequencies |-> << >>, magnitude |-> << >>,
               bandwidth |-> Unset, q_factor |-> Unset]

\* *std::max_element(magnitude.begin(), magnitude.end()) from sample i on.
RECURSIVE MaxMagnitude(_, _, _)
MaxMagnitude(magnitude, i, best) ==
    IF i > Len(magnitude) THEN best
    ELSE MaxMagnitude(magnitude, i + 1, Max(best, magnitude[i]))

\* The loop of lines 258-262 from sample i (1-based) on: it stops before the
\* last sample.
RECURSIVE CutoffLoop(_, _, _, _, _)
CutoffLoop(frequencies, magnitude, max_mag, i, cutoff_freqs) ==
    IF i > Len(frequencies) - 1 THEN cutoff_freqs
    ELSE CutoffLoop(frequencies, magnitude, max_mag, i + 1,
            IF Abs(magnitude[i] - (max_mag - ThreeDB)) < Window
            THEN Append(cutoff_freqs, frequencies[i])
            ELSE cutoff_freqs)

\* calculateBandwidthAndQ(response).  q_factor = sqrt(f1 * f2) / bandwidth is
\* kept as the pair (f1 * f2, bandwidth).  On an empty response max_element
\* returns end(), which is dereferenced.
calculateBandwidthAndQ(r) ==
    IF Len(r.magnitude) = 0
    THEN [r EXCEPT !.outcome = "undefined"]
    ELSE LET max_mag == MaxMagnitude(r.magnitude, 2, r.magnitude[1])
             cutoff_freqs == CutoffLoop(r.frequencies, r.magnitude, max_mag,
                                        1, << >>)
         IN  IF Len(cutoff_freqs) >= 2
             THEN [r EXCEPT
                     !.outcome = "returned",
                     !.bandwidth = Set(cutoff_freqs[2] - cutoff_freqs[1]),
                     !.q_factor =
                         Set([product |-> cutoff_freqs[1] * cutoff_freqs[2],
                              bandwidth |-> cutoff_freqs[2] - cutoff_freqs[1]])]
             ELSE [r EXCEPT !.outcome = "returned"]

Init ==
    /\ build = Unknown
    /\ components_ = << >>
    /\ nodes_ = << >>
    /\ voltage_sources_ = << >>
    /\ ground_node_ = NoNode
    /\ next_node_id_ = 0
    /\ voltage_ = [node \in AllNodes |-> Zero]
    /\ A_ = << >>
    /\ b_ = << >>
    /\ current_frequency_ = DC
    /\ time_ = 0
    /\ frequency_response_ = << >>
    /\ pc = "idle"
    /\ loop = NoLoop
    /\ calls = 0
    /\ last = NoAnalysis
    /\ arg = << >>
    /\ pins_ = [node \in AllNodes |-> << >>]
    /\ callers = NoCallers
    /\ sensitivity = NoSensitivity
    /\ designed = NoDesign
    /\ response = NoResponse
    /\ parameters_ = << >>
    /\ objectives_ = << >>
    /\ run = NoRun
    /\ evaluated = {}
    /\ previous = NoRun

\* The caller builds a component, may connect its first pin to a node of the
\* analyzer (taken from a pin of an earlier component) and its second pin to
\* a node of its own, and adds the component.
AddComponent ==
    /\ pc = "idle"
    /\ Len(components_) < MaxComps
    /\ \E shape \in Shapes :
       \E p1 \in {NoNode} \cup Range(nodes_) :
       \E p2 \in {NoNode} \cup UserNodes :
          /\ addComponent(NewComponent(shape, p1, p2))
          /\ arg' = <<p1, p2>>
    /\ UNCHANGED << build, voltage_, A_, b_, current_frequency_, time_,
                    frequency_response_, pc, loop, calls, last, callers, sensitivity, designer, optimizer >>

SetGroundNode ==
    /\ pc = "idle"
    /\ \E node \in Range(nodes_) \cup UserNodes : setGroundNode(node)
    /\ UNCHANGED << build, voltage_, A_, b_, current_frequency_, time_,
                    frequency_response_, pc, loop, calls, last, arg, pins_, callers, sensitivity, designer, optimizer >>

\* The builds that can be running when an analyze() call starts.
BuildsNow == IF build = Unknown THEN Builds ELSE {build}

\* The effect of one analyze(f) call on the analyzer; r = analyze(f, bld).
Analyzed(f, bld, r) ==
    /\ build' = IF r.oob THEN bld ELSE build
    /\ current_frequency_' = f
    /\ A_' = r.A
    /\ b_' = r.b
    /\ voltage_' = r.voltage
    /\ last' = r.report

\* A direct call analyze(f).
Analyze ==
    /\ pc = "idle"
    /\ calls < MaxCalls
    /\ \E f \in {DC, Hz(0)} : \E bld \in BuildsNow :
       \E r \in {analyze(f, bld)} :
          /\ Analyzed(f, bld, r)
          /\ components_' = r.comps
          /\ pc' = IF r.crash THEN "crashed" ELSE "idle"
    /\ calls' = calls + 1
    /\ loop' = NoLoop
    /\ UNCHANGED << nodes_, voltage_sources_, ground_node_,
                    next_node_id_, time_, frequency_response_, arg, pins_, callers, sensitivity, designer, optimizer >>

\* performAC(start_freq, stop_freq, points) up to the second loop.
PerformAC ==
    /\ pc = "idle"
    /\ calls < MaxCalls
    /\ \E sd, td \in Decades : \E points \in 1..MaxPoints :
         /\ sd < td
         /\ loop' = [NoLoop EXCEPT !.kind = "ac",
                        !.queue = Frequencies(sd, td, points),
                        !.args = <<Hz(sd * LogScale), Hz(td * LogScale), points>>]
    /\ pc' = "ac"
    /\ calls' = calls + 1
    /\ UNCHANGED << build, circuit, solver, time_, frequency_response_, last,
                    arg, pins_, callers, sensitivity, designer, optimizer >>

\* One pass of the loop of performAC, lines 62-66; the call returns after
\* the last frequency.
ACStep ==
    /\ pc = "ac"
    /\ \E bld \in BuildsNow : \E freq \in {Head(loop.queue)} :
       \E r \in {analyze(freq, bld)} :
           /\ Analyzed(freq, bld, r)
           /\ components_' = r.comps
           /\ IF r.crash
              THEN /\ pc' = "crashed"
                   /\ UNCHANGED << frequency_response_, loop >>
              ELSE /\ frequency_response_' =
                        MapPut(frequency_response_, freq,
                               getNodeVoltages(nodes_, r.voltage))
                   /\ loop' = [loop EXCEPT !.queue = Tail(@),
                                           !.done = Append(@, r.report)]
                   /\ pc' = IF Tail(loop.queue) = << >> THEN "idle" ELSE "ac"
    /\ UNCHANGED << nodes_, voltage_sources_, ground_node_,
                    next_node_id_, time_, calls, arg, pins_, callers, sensitivity, designer, optimizer >>

\* performTransient(stop_time, timestep) up to the loop: double t = 0.0.
\* With stop_time = 0 the loop is not entered and the call returns at once.
PerformTransient ==
    /\ pc = "idle"
    /\ calls < MaxCalls
    /\ \E stop \in 0..MaxStop : \E dt \in {1, 2} :
         /\ loop' = [NoLoop EXCEPT !.kind = "tran", !.stop = stop, !.dt = dt]
         /\ pc' = IF 0 < stop THEN "tran" ELSE "idle"
    /\ calls' = calls + 1
    /\ UNCHANGED << build, circuit, solver, time_, frequency_response_, last,
                    arg, pins_, callers, sensitivity, designer, optimizer >>

\* One pass of the loop of performTransient, lines 42-49; the call returns
\* when t has reached stop_time.
TransientStep ==
    /\ pc = "tran"
    /\ loop.t < loop.stop
    /\ \E bld \in BuildsNow : \E t \in {loop.t + loop.dt} :
       \E r \in {analyze(DC, bld)} :
       \E upd \in {r.report.upd \o UpdateCalls(r.comps, loop.dt)} :
           /\ Analyzed(DC, bld, [r EXCEPT !.report.upd = upd])
           /\ IF r.crash
              THEN /\ pc' = "crashed"
                   /\ UNCHANGED << components_, time_, loop >>
              ELSE /\ components_' = UpdateAll(r.comps, loop.dt, r.voltage)
                   /\ time_' = t
                   /\ loop' = [loop EXCEPT !.t = t, !.done = Append(@, upd)]
                   /\ pc' = IF t < loop.stop THEN "tran" ELSE "idle"
    /\ UNCHANGED << nodes_, voltage_sources_, ground_node_,
                    next_node_id_, frequency_response_, calls, arg, pins_, callers, sensitivity, designer, optimizer >>

\* Caller t enters analyze(f): current_frequency_ = frequency (line 34).
CallAnalyze(t) ==
    /\ pc = "idle"
    /\ callers.at[t] = "out"
    /\ calls < MaxCalls
    /\ \E f \in {DC, Hz(0)} :
         /\ current_frequency_' = f
         /\ callers' = [callers EXCEPT !.at[t] = "entered", !.f[t] = f,
                                       !.seen[t] = NoFreq]
    /\ calls' = calls + 1
    /\ UNCHANGED << build, circuit, voltage_, A_, b_, time_,
                    frequency_response_, pc, loop, last, arg, pins_, sensitivity, designer, optimizer >>

\* Caller t runs buildMNA() (line 35) at the frequency current_frequency_
\* holds by now.
CallBuildMNA(t) ==
    /\ pc = "idle"
    /\ callers.at[t] = "entered"
    /\ IF Len(nodes_) = 0
       THEN /\ pc' = "crashed"
            /\ UNCHANGED << build, A_, b_, callers >>
       ELSE \E bld \in BuildsNow :
            \E bm \in { buildMNA(components_, voltage_sources_, nodes_,
                                 ground_node_, current_frequency_) } :
               /\ build' = IF bm.oob THEN bld ELSE build
               /\ IF bm.oob /\ bld = "assert"
                  THEN /\ pc' = "crashed"
                       /\ UNCHANGED << A_, b_, callers >>
                  ELSE /\ A_' = bm.A
                       /\ b_' = bm.b
                       /\ callers' = [callers EXCEPT
                                         !.at[t] = "assembled",
                                         !.assembled = current_frequency_]
                       /\ pc' = pc
    /\ UNCHANGED << circuit, voltage_, current_frequency_, time_,
                    frequency_response_, loop, calls, last, arg, pins_, sensitivity, designer, optimizer >>

\* Caller t runs solve() (line 36) on the A_ and b_ it finds.
CallSolve(t) ==
    /\ pc = "idle"
    /\ callers.at[t] = "assembled"
    /\ \E x \in { Solve(A_, b_, (Len(nodes_) - 1) + Len(voltage_sources_)) } :
         /\ voltage_' = solveVoltages(x, nodes_, voltage_)
         /\ components_' = solveCurrents(x, nodes_, voltage_sources_, components_)
    /\ callers' = [callers EXCEPT !.at[t] = "solved",
                                  !.solved = callers.assembled]
    /\ UNCHANGED << build, nodes_, voltage_sources_, ground_node_,
                    next_node_id_, A_, b_, current_frequency_, time_,
                    frequency_response_, pc, loop, calls, last, arg, pins_, sensitivity, designer, optimizer >>

\* Caller t runs updateComponents() (line 37) and returns from analyze().
CallUpdateComponents(t) ==
    /\ pc = "idle"
    /\ callers.at[t] = "solved"
    /\ components_' = updateComponents(components_, voltage_)
    /\ callers' = [callers EXCEPT !.at[t] = "returned"]
    /\ UNCHANGED << build, nodes_, voltage_sources_, ground_node_,
                    next_node_id_, voltage_, A_, b_, current_frequency_, time_,
                    frequency_response_, pc, loop, calls, last, arg, pins_, sensitivity, designer, optimizer >>

\* Caller t reads getNodeVoltages() after its own call.
CallGetNodeVoltages(t) ==
    /\ pc = "idle"
    /\ callers.at[t] = "returned"
    /\ callers' = [callers EXCEPT !.at[t] = "out", !.seen[t] = callers.solved]
    /\ UNCHANGED << build, circuit, solver, time_, frequency_response_, pc,
                    loop, calls, last, arg, pins_, sensitivity, designer, optimizer >>

\* designFilter(spec) for any specification of a ladder filter.
DesignFilter ==
    /\ \E spec \in FilterSpecifications :
          designed' = [spec |-> spec, components |-> designFilter(spec)]
    /\ UNCHANGED << analysis, optimizer, response >>

\* The end of an analyzeFilter(frequencies) call: the response holds the
\* frequencies and one magnitude for each, and calculateBandwidthAndQ runs.
CalculateBandwidthAndQ ==
    /\ \E n \in 0..MaxSamples : \E magnitude \in [1..n -> Magnitudes] :
          response' = calculateBandwidthAndQ(
                         [NoResponse EXCEPT !.frequencies = SampleFrequencies(n),
                                            !.magnitude = magnitude])
    /\ UNCHANGED << analysis, optimizer, designed >>

\* addParameter(name, min_value, max_value, initial_value), while the
\* optimizer is being configured.
AddParameter ==
    /\ run.at = "idle"
    /\ Len(parameters_) < MaxParams
    /\ \E parameter \in ParameterChoices :
          parameters_' = addParameter(parameters_, parameter)
    /\ UNCHANGED << analysis, designer, objectives_, run, evaluated, previous >>

\* addObjective(name, type, target_value, weight), while the optimizer is
\* being configured.
AddObjective ==
    /\ run.at = "idle"
    /\ Len(objectives_) < MaxObjectives
    /\ \E objective \in ObjectiveChoices :
          objectives_' = addObjective(objectives_, objective)
    /\ UNCHANGED << analysis, designer, parameters_, run, evaluated, previous >>

\* One evaluateFitness call on a random individual, on its own: the record
\* of evaluations starts afresh with it.
EvaluateFitness ==
    /\ run.at = "idle"
    /\ \E individual \in generateRandomIndividual(parameters_) :
          evaluated' = {evaluateFitness(individual, objectives_)}
    /\ UNCHANGED << analysis, designer, parameters_, objectives_, run, previous >>

\* optimizeGeneticAlgorithm is entered: the initial population is drawn.
GABegin(population_size, generations, mutation_rate, crossover_rate) ==
    /\ \E population \in RandomPopulation(population_size, parameters_) :
          run' = [algorithm |-> "GA", at |-> "evolve",
                  population_size |-> population_size,
                  generations |-> generations,
                  mutation_rate |-> mutation_rate,
                  crossover_rate |-> crossover_rate,
                  gen |-> 0, population |-> population, result |-> << >>]
    /\ evaluated' = {}

GAStart ==
    /\ run.at = "idle"
    /\ \E population_size \in 0..MaxPop, generations \in 0..MaxGen,
          mutation_rate \in Rates, crossover_rate \in Rates :
          GABegin(population_size, generations, mutation_rate, crossover_rate)
    /\ UNCHANGED << analysis, designer, parameters_, objectives_, previous >>

\* One pass of the evolution loop: evaluate, select, cross over, mutate,
\* replace the population.
GAGeneration ==
    /\ run.algorithm = "GA" /\ run.at = "evolve"
    /\ run.gen < run.generations
    /\ \E fitness \in { FitnessOf(run.population, objectives_) } :
       \E offspring \in { IF run.population_size = 0 THEN {}
                            ELSE Offspring(run.population, fitness,
                                           run.mutation_rate,
                                           run.crossover_rate) } :
       \E new_population \in NewPopulations(<< >>, run.population_size, offspring) :
          run' = [run EXCEPT !.population = new_population, !.gen = @ + 1]
    /\ evaluated' = evaluated \cup Evaluations(run.population, objectives_)
    /\ UNCHANGED << analysis, designer, parameters_, objectives_, previous >>

\* After the last generation: the final population is evaluated once more
\* and its best member returned.
GAReturn ==
    /\ run.algorithm = "GA" /\ run.at = "evolve"
    /\ run.gen >= run.generations
    /\ run' = [run EXCEPT !.at = "done",
                          !.result = BestOf(run.population,
                                            FitnessOf(run.population, objectives_),
                                            1, 0)]
    /\ evaluated' = evaluated \cup Evaluations(run.population, objectives_)
    /\ UNCHANGED << analysis, designer, parameters_, objectives_, previous >>

\* The caller keeps the result and calls optimizeGeneticAlgorithm once more,
\* on the same optimizer, with the same arguments.
GAAgain ==
    /\ run.algorithm = "GA" /\ run.at = "done"
    /\ previous = NoRun
    /\ GABegin(run.population_size, run.generations, run.mutation_rate,
               run.crossover_rate)
    /\ previous' = run
    /\ UNCHANGED << analysis, designer, parameters_, objectives_ >>

\* optimizeParticleSwarm is entered: the swarm is initialised and evaluated.
PSOStart ==
    /\ run.at = "idle"
    /\ \E swarm_size \in 0..MaxPop, iterations \in 0..MaxGen,
          w \in Inertias, c1 \in Accelerations, c2 \in Accelerations :
       \E swarm \in InitSwarm([positions |-> << >>, velocities |-> << >>,
                               best_positions |-> << >>,
                               best_fitnesses |-> << >>,
                               global_best |-> << >>,
                               global_best_fitness |-> NegInf,
                               parameters |-> parameters_],
                              1, swarm_size, objectives_) :
          /\ run' = [algorithm |-> "PSO", at |-> "swarm",
                     swarm_size |-> swarm_size, iterations |-> iterations,
                     w |-> w, c1 |-> c1, c2 |-> c2, iter |-> 0, i |-> 1,
                     positions |-> swarm.positions,
                     velocities |-> swarm.velocities,
                     best_positions |-> swarm.best_positions,
                     best_fitnesses |-> swarm.best_fitnesses,
                     global_best |-> swarm.global_best,
                     global_best_fitness |-> swarm.global_best_fitness,
                     result |-> << >>]
          /\ evaluated' = Evaluations(swarm.positions, objectives_)
    /\ UNCHANGED << analysis, designer, parameters_, objectives_, previous >>

\* One particle of one iteration: velocity, position, clamp, evaluation,
\* bests.
PSOStep ==
    /\ run.algorithm = "PSO" /\ run.at = "swarm"
    /\ run.iter < run.iterations /\ run.swarm_size > 0
    /\ \E r \in [DOMAIN parameters_ -> UnitDraws \X UnitDraws] :
       \E moved \in { MoveParticle(run, run.i, r) } :
          /\ run' = [UpdateBests(run, run.i, moved, objectives_) EXCEPT
                        !.i = IF run.i < run.swarm_size THEN run.i + 1 ELSE 1,
                        !.iter = IF run.i < run.swarm_size THEN @ ELSE @ + 1]
          /\ evaluated' = evaluated \cup
                          {evaluateFitness(moved.position, objectives_)}
    /\ UNCHANGED << analysis, designer, parameters_, objectives_, previous >>

\* After the last iteration (an empty swarm iterates over nothing): the global
\* best is returned.
PSOReturn ==
    /\ run.algorithm = "PSO" /\ run.at = "swarm"
    /\ run.iter >= run.iterations \/ run.swarm_size = 0
    /\ run' = [run EXCEPT !.at = "done", !.result = run.global_best]
    /\ UNCHANGED << analysis, designer, parameters_, objectives_, evaluated,
                    previous >>

\* DifferentialEvolution::optimize is entered: the population is drawn and
\* evaluated.
DEStart ==
    /\ run.at = "idle"
    /\ \E population_size \in 0..MaxDEPop, generations \in 0..MaxDEGen,
          F \in DifferentialWeights, CR \in Rates :
       \E population \in RandomPopulation(population_size, parameters_) :
          /\ run' = [algorithm |-> "DE", at |-> "donors",
                     population_size |-> population_size,
                     generations |-> generations, F |-> F, CR |-> CR,
                     gen |-> 0, i |-> 0, population |-> population,
                     fitness |-> FitnessOf(population, objectives_),
                     r |-> << >>, result |-> << >>]
          /\ evaluated' = Evaluations(population, objectives_)
    /\ UNCHANGED << analysis, designer, parameters_, objectives_, previous >>

\* One pass of the do-while of lines 36-40 whose draw fails the test: the
\* loop goes round again.  run.r holds r1, r2, r3 as the pass left them
\* (nothing before the first pass of an iteration).
DEDrawAgain ==
    /\ run.algorithm = "DE" /\ run.at = "donors"
    /\ run.gen < run.generations /\ run.population_size > 0
    /\ \E r \in Donors(run.population_size) :
          /\ ~Distinct(r, run.i)
          /\ run' = [run EXCEPT !.r = r]
    /\ UNCHANGED << analysis, designer, parameters_, objectives_, evaluated,
                    previous >>

\* The pass of the do-while whose draw passes the test, and the rest of the
\* loop body: trial vector, evaluation, greedy selection, next i.
DETrial ==
    /\ run.algorithm = "DE" /\ run.at = "donors"
    /\ run.gen < run.generations /\ run.population_size > 0
    /\ \E r \in Donors(run.population_size) :
          /\ Distinct(r, run.i)
          /\ \E R \in IF Len(parameters_) = 0 THEN {0}
                      ELSE uniformInt(0, Len(parameters_) - 1) :
             \E trial \in Trials(run.population, run.i, r, R, run.F, run.CR) :
             \E e \in { evaluateFitness(trial, objectives_) } :
             \E last_i \in { run.i + 1 >= run.population_size } :
                /\ run' = [run EXCEPT
                      !.r = r,
                      !.population[run.i + 1] =
                          IF e.fitness > run.fitness[run.i + 1] THEN trial ELSE @,
                      !.fitness[run.i + 1] =
                          IF e.fitness > run.fitness[run.i + 1] THEN e.fitness ELSE @,
                      !.i = IF last_i THEN 0 ELSE @ + 1,
                      !.gen = IF last_i THEN @ + 1 ELSE @]
                /\ evaluated' = evaluated \cup {e}
    /\ UNCHANGED << analysis, designer, parameters_, objectives_, previous >>

\* After the last generation (an empty population has nothing to evolve): the
\* member of greatest fitness is returned.
DEReturn ==
    /\ run.algorithm = "DE" /\ run.at = "donors"
    /\ run.gen >= run.generations \/ run.population_size = 0
    /\ run' = [run EXCEPT
                  !.at = "done",
                  !.result = IF run.population_size = 0 THEN << >>
                             ELSE run.population[MaxElement(run.fitness, 2, 1)]]
    /\ UNCHANGED << analysis, designer, parameters_, objectives_, evaluated,
                    previous >>

\* SimulatedAnnealing::optimize is entered: the first solution is drawn and
\* evaluated, and is the best so far.
SAStart ==
    /\ run.at = "idle"
    /\ \E initial_temp \in InitialTemps, final_temp \in FinalTemps,
          cooling_rate \in CoolingRates, iterations_per_temp \in 0..MaxBatch :
       \E current \in generateRandomIndividual(parameters_) :
       \E e \in { evaluateFitness(current, objectives_) } :
          /\ run' = [algorithm |-> "SA", at |-> "anneal",
                     final_temp |-> final_temp, cooling_rate |-> cooling_rate,
                     iterations_per_temp |-> iterations_per_temp,
                     temp |-> initial_temp, i |-> 0,
                     current |-> current, current_energy |-> -e.fitness,
                     best |-> current, best_energy |-> -e.fitness,
                     moved |-> << >>, result |-> << >>]
          /\ evaluated' = {e}
    /\ UNCHANGED << analysis, designer, parameters_, objectives_, previous >>

\* One pass of the inner loop (lines 99-118).  run.moved keeps the energy of
\* the neighbour and whether it was accepted.
SAMove ==
    /\ run.algorithm = "SA" /\ run.at = "anneal"
    /\ run.temp > run.final_temp
    /\ run.i < run.iterations_per_temp
    /\ \E neighbor \in generateNeighbor(run.current, run.temp) :
       \E e \in { evaluateFitness(neighbor, objectives_) } :
       \E neighbor_energy \in { -e.fitness } :
       \E accepted \in Accepts(neighbor_energy - run.current_energy, run.temp) :
       \E better \in { accepted /\ Better(neighbor_energy, run.best_energy) } :
          /\ run' = [run EXCEPT
                        !.i = @ + 1,
                        !.current = IF accepted THEN neighbor ELSE @,
                        !.current_energy = IF accepted THEN neighbor_energy ELSE @,
                        !.best = IF better THEN neighbor ELSE @,
                        !.best_energy = IF better THEN neighbor_energy ELSE @,
                        !.moved = [energy |-> neighbor_energy,
                                   accepted |-> accepted]]
          /\ evaluated' = evaluated \cup {e}
    /\ UNCHANGED << analysis, designer, parameters_, objectives_, previous >>

\* The batch is over: temp *= cooling_rate (line 121).
SACool ==
    /\ run.algorithm = "SA" /\ run.at = "anneal"
    /\ run.temp > run.final_temp
    /\ run.i >= run.iterations_per_temp
    /\ run' = [run EXCEPT !.temp = (@ * run.cooling_rate) \div 100, !.i = 0,
                          !.moved = << >>]
    /\ UNCHANGED << analysis, designer, parameters_, objectives_, evaluated,
                    previous >>

\* The annealing loop is over: return best.
SAReturn ==
    /\ run.algorithm = "SA" /\ run.at = "anneal"
    /\ run.temp <= run.final_temp
    /\ run' = [run EXCEPT !.at = "done", !.result = run.best]
    /\ UNCHANGED << analysis, designer, parameters_, objectives_, evaluated,
                    previous >>

\* NelderMead::optimize is entered: the simplex is built and evaluated.
NMStart ==
    /\ run.at = "idle"
    /\ \E alpha \in Reflections, gamma \in Expansions, rho \in Contractions,
          sigma \in Shrinks, tolerance \in Tolerances,
          max_iterations \in 0..MaxIterations :
       \E first \in generateRandomIndividual(parameters_) :
       \E simplex \in { InitialSimplex(first) } :
          /\ run' = [algorithm |-> "NM", at |-> "simplex",
                     alpha |-> alpha, gamma |-> gamma, rho |-> rho,
                     sigma |-> sigma, tolerance |-> tolerance,
                     max_iterations |-> max_iterations, iterations |-> 0,
                     simplex |-> simplex,
                     values |-> [i \in DOMAIN simplex |->
                                   Value(simplex[i], objectives_)],
                     kind |-> "none", order |-> << >>, result |-> << >>]
          /\ evaluated' = { evaluateNotch(simplex[i], objectives_) :
                               i \in DOMAIN simplex }
    /\ UNCHANGED << analysis, designer, parameters_, objectives_, previous >>

\* One pass of the main loop that does not stop at the convergence test.
\* run.kind and run.order keep the operation made and the order it used.
NMIteration ==
    /\ run.algorithm = "NM" /\ run.at = "simplex"
    /\ run.iterations < run.max_iterations
    /\ Len(run.simplex) >= 2
    /\ \E order \in Orders(run.values) :
          /\ ~(Spread(run.values, order) < run.tolerance)
          /\ \E next \in { Iterate(run.simplex, run.values, order, run.alpha,
                                   run.gamma, run.rho, run.sigma, objectives_) } :
                /\ run' = [run EXCEPT !.simplex = next.simplex,
                                      !.values = next.values,
                                      !.kind = next.kind,
                                      !.order = order,
                                      !.iterations = @ + 1]
                /\ evaluated' = evaluated \cup
                      { evaluateNotch(point, objectives_) : point \in next.tried }
    /\ UNCHANGED << analysis, designer, parameters_, objectives_, previous >>

\* The same pass on a simplex of one vertex (no parameters): the second
\* worst is read at order[order.size() - 2], an index below the vector.
NMUndefined ==
    /\ run.algorithm = "NM" /\ run.at = "simplex"
    /\ run.iterations < run.max_iterations
    /\ Len(run.simplex) < 2
    /\ \E order \in Orders(run.values) :
          ~(Spread(run.values, order) < run.tolerance)
    /\ run' = [run EXCEPT !.at = "undefined"]
    /\ UNCHANGED << analysis, designer, parameters_, objectives_, evaluated,
                    previous >>

\* The loop ends, by the iteration count or at the convergence test, and the
\* vertex of least value is returned.
NMReturn ==
    /\ run.algorithm = "NM" /\ run.at = "simplex"
    /\ \/ run.iterations >= run.max_iterations
       \/ \E order \in Orders(run.values) :
             Spread(run.values, order) < run.tolerance
    /\ run' = [run EXCEPT !.at = "done",
                          !.result = run.simplex[MinElement(run.values, 2, 1)]]
    /\ UNCHANGED << analysis, designer, parameters_, objectives_, evaluated,
                    previous >>

\* analyzeSensitivity(parameters, tolerances, frequency): the nominal
\* analyze(frequency), then the loop over the names.
AnalyzeSensitivity ==
    /\ pc = "idle"
    /\ calls < MaxCalls
    /\ \E parameters \in NameLists :
       \E f \in {DC, Hz(0)} : \E bld \in BuildsNow :
       \E r \in {analyze(f, bld)} :
       \E end \in (IF r.crash
                   THEN { [outcome |-> "crashed", results |-> << >>] }
                   ELSE SensitivityLoop(parameters, 1, << >>)) :
          /\ Analyzed(f, bld, r)
          /\ components_' = r.comps
          /\ pc' = IF end.outcome = "returned" THEN "idle" ELSE "crashed"
          /\ sensitivity' = [outcome |-> end.outcome,
                             parameters |-> parameters,
                             results |-> end.results]
    /\ calls' = calls + 1
    /\ loop' = NoLoop
    /\ UNCHANGED << nodes_, voltage_sources_, ground_node_,
                    next_node_id_, time_, frequency_response_, arg, pins_,
                    callers, designer, optimizer >>

\* A session follows the lifecycle of a circuit: it is built (components
\* added, ground resolved) and then analysed.
Next ==
    \/ (calls = 0 /\ AddComponent)
    \/ (calls = 0 /\ SetGroundNode)
    \/ Analyze
    \/ PerformAC
    \/ ACStep
    \/ PerformTransient
    \/ TransientStep

Spec == Init /\ [][Next]_vars

\* Building only, and building followed by direct analyze() calls only.
NextTopology == AddComponent \/ SetGroundNode
SpecTopology == Init /\ [][NextTopology]_vars

NextAnalyze ==
    \/ (calls = 0 /\ AddComponent)
    \/ (calls = 0 /\ SetGroundNode)
    \/ Analyze
SpecAnalyze == Init /\ [][NextAnalyze]_vars

\* Building followed by AC sweeps only, and by transient runs only.
NextAC ==
    \/ (calls = 0 /\ AddComponent)
    \/ (calls = 0 /\ SetGroundNode)
    \/ PerformAC
    \/ ACStep
SpecAC == Init /\ [][NextAC]_vars

NextTransient ==
    \/ (calls = 0 /\ AddComponent)
    \/ (calls = 0 /\ SetGroundNode)
    \/ PerformTransient
    \/ TransientStep
SpecTransient == Init /\ [][NextTransient]_vars

\* Building followed by analyze() calls of two concurrent callers.
NextCallers ==
    \/ (calls = 0 /\ AddComponent)
    \/ (calls = 0 /\ SetGroundNode)
    \/ \E t \in Callers :
          \/ CallAnalyze(t)
          \/ CallBuildMNA(t)
          \/ CallSolve(t)
          \/ CallUpdateComponents(t)
          \/ CallGetNodeVoltages(t)
SpecCallers == Init /\ [][NextCallers]_vars

\* Building followed by sensitivity analyses only.
NextSensitivity ==
    \/ (calls = 0 /\ AddComponent)
    \/ (calls = 0 /\ SetGroundNode)
    \/ AnalyzeSensitivity
SpecSensitivity == Init /\ [][NextSensitivity]_vars

\* The bandwidth and Q computation alone, on every response.
NextResponse == CalculateBandwidthAndQ
SpecResponse == Init /\ [][NextResponse]_vars

\* Filter synthesis alone.
NextFilter == DesignFilter
SpecFilter == Init /\ [][NextFilter]_vars

\* The fitness function alone, on every configuration of objectives.
NextFitness == AddParameter \/ AddObjective \/ EvaluateFitness
SpecFitness == Init /\ [][NextFitness]_vars

\* A genetic-algorithm run on any configuration.
NextGA == AddParameter \/ AddObjective \/ GAStart \/ GAGeneration \/ GAReturn
SpecGA == Init /\ [][NextGA]_vars

\* The trials of a differential-evolution run over at most one parameter
\* (registered with an initial value inside its range; the run redraws it) and
\* one objective of weight 1.  The passes of the donor loop that fail its
\* test change r1, r2, r3 only, which the next pass overwrites; they are left
\* out.
NextTrials ==
    \/ /\ Len(parameters_) < 1 /\ AddParameter
       /\ parameters_'[1].current_value <= parameters_'[1].max_value
    \/ /\ Len(objectives_) < 1 /\ AddObjective
       /\ objectives_'[1].weight = 1
    \/ DEStart \/ DETrial
SpecTrials == Init /\ [][NextTrials]_vars

\* Two genetic-algorithm runs in a row with the same arguments, on any
\* configuration of parameters with up to one objective.
NextRepeat ==
    \/ AddParameter
    \/ Len(objectives_) < 1 /\ AddObjective
    \/ GAStart \/ GAGeneration \/ GAReturn \/ GAAgain
SpecRepeat == Init /\ [][NextRepeat]_vars

\* The generations of a genetic-algorithm run over at most one parameter and
\* one objective (enough to tell the individuals of a population apart).
NextGeneration ==
    \/ Len(parameters_) < 1 /\ AddParameter
    \/ Len(objectives_) < 1 /\ AddObjective
    \/ GAStart \/ GAGeneration
SpecGeneration == Init /\ [][NextGeneration]_vars

\* A simulated-annealing run over at most one parameter and one objective.
NextSA ==
    \/ Len(parameters_) < 1 /\ AddParameter
    \/ Len(objectives_) < 1 /\ AddObjective
    \/ SAStart \/ SAMove \/ SACool \/ SAReturn
SpecSA == Init /\ [][NextSA]_vars

\* A Nelder-Mead run over at most one parameter and one objective.
NextNM ==
    \/ Len(parameters_) < 1 /\ AddParameter
    \/ Len(objectives_) < 1 /\ AddObjective
    \/ NMStart \/ NMIteration \/ NMUndefined \/ NMReturn
SpecNM == Init /\ [][NextNM]_vars

\* A particle-swarm run on any configuration.
NextPSO == AddParameter \/ AddObjective \/ PSOStart \/ PSOStep \/ PSOReturn
SpecPSO == Init /\ [][NextPSO]_vars

\* A differential-evolution run on any configuration of parameters; one
\* objective is enough to tell the members of a population apart.
NextDE ==
    \/ AddParameter
    \/ Len(objectives_) < 1 /\ AddObjective
    \/ DEStart \/ DEDrawAgain \/ DETrial \/ DEReturn
SpecDE == Init /\ [][NextDE]_vars

\* =================================================================== claims
\* Vocabulary of the claims: the nodes with a return path to ground at
\* frequency f.  A component conducts unless its admittance is exactly zero
\* (a capacitor at DC); an ideal voltage source conducts.
Conducts(component, c, f) ==
    \/ component.type = "VOLTAGE_SOURCE"
    \/ Reciprocal(getImpedance(component, c, f)).cls # "zero"

RECURSIVE Grounded(_, _, _)
Grounded(S, comps, f) ==
    LET T == S \cup { p \in AllNodes :
                        \E c \in DOMAIN comps :
                           /\ Conducts(comps[c], c, f)
                           /\ \/ comps[c].pins[1] \in S /\ comps[c].pins[2] = p
                              \/ comps[c].pins[2] \in S /\ comps[c].pins[1] = p }
    IN  IF T = S THEN S ELSE Grounded(T, comps, f)

\* The nodes of the analysed circuit with no return path to ground.
Floating(nodes, ground, comps, f) == Range(nodes) \ Grounded({ground}, comps, f)

VoltageSources(comps) == {c \in DOMAIN comps : comps[c].type = "VOLTAGE_SOURCE"}

\* C1: in every reachable state the node designated as ground has voltage 0,
\* and no analyze() call (here: one that stayed inside the matrix) has written
\* a solution entry into the ground node, whatever the position of the ground
\* node in the node list.
C1_GroundStaysZero ==
    ground_node_ # NoNode =>
        /\ voltage_[ground_node_] = Zero
        /\ (last.outcome = "returned" /\ ~last.oob) =>
              \A w \in last.written : w[1] # last.ground

\* C2: when the ground node is a node of the circuit, every other node has a
\* distinct unknown index in 0..n-1 (n = #nodes - 1), every index pair used
\* while stamping lies inside the matrix, and solution entry k is written to
\* the node that was stamped at index k.
C2_IndexMapping ==
    (last.outcome # "none" /\ last.ground \in Range(last.nodes)) =>
        LET n == Len(last.nodes) - 1
            idx(node) == getNodeIndex(last.nodes, last.ground, node)
            others == Range(last.nodes) \ {last.ground}
        IN  /\ \A node \in others : idx(node) \in 0..(n - 1)
            /\ \A a, b \in others : a # b => idx(a) # idx(b)
            /\ idx(last.ground) = NoIndex
            /\ ~last.oob
            /\ \A u \in last.used : InRange(last.size, u[1], u[2])
            /\ \A w \in last.written : idx(w[1]) = w[2]

\* C3: with m voltage sources added, analyze() builds a system of size n + m,
\* puts each source's commanded voltage into b at the source's own row, and
\* writes that row's solution entry into the source's current field.
C3_SourcesInSystem ==
    last.outcome = "returned" =>
        LET n == Len(last.nodes) - 1
            m == Cardinality(VoltageSources(components_))
        IN  /\ Range(voltage_sources_) = VoltageSources(components_)
            /\ last.size = n + m
            /\ \A c \in VoltageSources(components_) :
                  \E w \in last.currents :
                     /\ w[1] = c
                     /\ w[2] \in n..(n + m - 1)
                     /\ b_[w[2]].t = "volt" /\ b_[w[2]].c = c

C5_SingularDetected ==
    ( /\ last.outcome # "none"
      /\ last.ground \in Range(last.nodes)
      /\ ~last.oob
      /\ last.f.k \in {"dc", "ac"}
      /\ Floating(last.nodes, last.ground, components_, last.f) # {} ) =>
        /\ last.outcome = "SingularMatrixError"
        /\ last.written = {}
        /\ last.currents = {}

\* C6: analyze() with no ground node set fails with TopologyError before any
\* matrix is assembled or solved and leaves the node voltages unchanged.
C6_NoGroundRejected ==
    ( /\ last.outcome # "none"
      /\ last.ground = NoNode
      /\ Len(last.nodes) > 0
      /\ ~last.oob ) =>
        /\ last.outcome = "TopologyError"
        /\ last.used = {}
        /\ last.written = {}

\* C7: in a finished performAC sweep a sample whose circuit is singular at
\* that frequency (and was stamped inside the matrix) has no recorded entry, while the other frequencies of the
\* sweep are recorded.
C7_FailedSampleSkipped ==
    (pc = "idle" /\ loop.kind = "ac") =>
        \A k \in DOMAIN loop.done :
           LET r == loop.done[k]
               singular == /\ r.f.k = "ac" /\ ~r.oob
                           /\ r.ground \in Range(r.nodes)
                           /\ Floating(r.nodes, r.ground, components_, r.f) # {}
           IN  IF singular THEN r.f \notin DOMAIN frequency_response_
               ELSE r.f \in DOMAIN frequency_response_

\* C8: when performAC(fStart, fStop, points) has returned, the frequency
\* response holds exactly `points` entries, the first at fStart and the last
\* at fStop, analysed in increasing order, each the node voltages solved at
\* its key; also after earlier performAC calls on the same analyzer.  Only
\* sweeps whose stamps all stayed inside the matrix are looked at.
C8_ExactlyPointsSamples ==
    (pc = "idle" /\ loop.kind = "ac"
        /\ \A k \in DOMAIN loop.done : ~loop.done[k].oob) =>
        /\ Len(loop.done) = loop.args[3]
        /\ loop.done[1].f = loop.args[1]
        /\ loop.done[Len(loop.done)].f = loop.args[2]
        /\ \A k \in 1..(Len(loop.done) - 1) : loop.done[k].f.e < loop.done[k + 1].f.e
        /\ DOMAIN frequency_response_ = {loop.done[k].f : k \in DOMAIN loop.done}
        /\ Cardinality(DOMAIN frequency_response_) = loop.args[3]
        /\ \A k \in DOMAIN loop.done :
              frequency_response_[loop.done[k].f] = loop.done[k].after

\* C9: in every completed step of performTransient(stopTime, dt) the
\* updateState of every component is invoked exactly once, with step dt
\* (looked at in runs where no index has left the matrix).
C9_UpdateOncePerStep ==
    (loop.kind = "tran" /\ build = Unknown) =>
        \A k \in DOMAIN loop.done :
           /\ \A c \in DOMAIN components_ :
                 Cardinality({i \in DOMAIN loop.done[k] : loop.done[k][i][1] = c}) = 1
           /\ \A i \in DOMAIN loop.done[k] : loop.done[k][i][2] = loop.dt

\* C10: addComponent(c) appends c; each pin of c that had no node is
\* connected to one new node, distinct from every existing node and from the
\* other new one; pins that had a node keep it; afterwards every pin has a
\* node and the node list has grown by the number of pins that had none,
\* the new nodes appended after the old ones.
C10_AddComponentContract ==
    [][ Len(components_') # Len(components_) =>
          LET c == components_'[Len(components_')]
              fresh == {i \in 1..2 : arg'[i] = NoNode}
          IN  /\ Len(components_') = Len(components_) + 1
              /\ SubSeq(components_', 1, Len(components_)) = components_
              /\ \A i \in (1..2) \ fresh : c.pins[i] = arg'[i]
              /\ \A i \in 1..2 : c.pins[i] # NoNode
              /\ \A i \in fresh : c.pins[i] \notin Range(nodes_) \cup UserNodes
              /\ \A i, j \in fresh : i # j => c.pins[i] # c.pins[j]
              /\ Len(nodes_') = Len(nodes_) + Cardinality(fresh)
              /\ SubSeq(nodes_', 1, Len(nodes_)) = nodes_
              /\ {nodes_'[k] : k \in (Len(nodes_) + 1)..Len(nodes_')}
                    = {c.pins[i] : i \in fresh} ]_vars

\* C10's case: a second component was added with its first pin on a node of
\* the first component and its second pin unconnected, so one node was made.
C10_Witness ==
    /\ Len(components_) = 2
    /\ arg[1] \in Range(nodes_) /\ arg[2] = NoNode
    /\ components_[2].pins[1] = components_[1].pins[1]
    /\ Len(nodes_) = 3

\* C11: after any sequence of addComponent calls every pin of every added
\* component references a node, appears exactly once in that node's
\* back-reference list and in no other node's list; and every non-ground node
\* of the node list has a pin of an added component in its list.
C11_PinsBelongToNodes ==
    /\ \A c \in DOMAIN components_ : \A i \in 1..2 :
          LET node == components_[c].pins[i]
          IN  /\ node # NoNode
              /\ Cardinality({k \in DOMAIN pins_[node] : pins_[node][k] = <<c, i>>}) = 1
              /\ \A other \in AllNodes \ {node} : <<c, i>> \notin Range(pins_[other])
    /\ \A node \in Range(nodes_) \ {ground_node_} :
          \E c \in DOMAIN components_ : \E i \in 1..2 : <<c, i>> \in Range(pins_[node])

\* C12: with two callers of analyze() on one analyzer at most one call is in
\* flight at a time (so none assembles or solves while another is between
\* assembly and write-back), and the node voltages a caller reads after its
\* own call are the solution for its own frequency.
C12_OneCallInFlight ==
    /\ Cardinality({t \in Callers : callers.at[t] \in InFlight}) <= 1
    /\ \A t \in Callers :
          callers.seen[t] # NoFreq => callers.seen[t] = callers.f[t]

\* C19: at every analysis point (DC or a real frequency) every non-source
\* component returns a finite impedance, the admittance 1 / impedance that is
\* stamped is finite, and no infinite or NaN value is in the matrix.
C19_FiniteImpedance ==
    (last.outcome = "returned" /\ last.f.k \in {"dc", "ac"}) =>
        /\ \A c \in DOMAIN components_ :
              components_[c].type # "VOLTAGE_SOURCE" =>
                 LET z == getImpedance(components_[c], c, last.f)
                 IN  /\ z.cls \in {"finite", "zero"}
                     /\ Reciprocal(z).cls \in {"finite", "zero"}
        /\ AFinite(A_)

\* C20: designFilter for a LOWPASS specification of order N returns exactly
\* N components whose kinds alternate inductor, capacitor, ... starting with
\* an inductor; for HIGHPASS it returns the dual, starting with a capacitor.
C20_LadderAlternates ==
    designed.spec.type \in LadderTypes =>
        LET first == IF designed.spec.type = "LOWPASS" THEN "INDUCTOR"
                                                       ELSE "CAPACITOR"
            second == IF designed.spec.type = "LOWPASS" THEN "CAPACITOR"
                                                        ELSE "INDUCTOR"
        IN  /\ Len(designed.components) = designed.spec.order
            /\ \A i \in DOMAIN designed.components :
                  designed.components[i].type =
                     IF i % 2 = 1 THEN first ELSE second

C20_Witness ==
    /\ designed.spec.type = "HIGHPASS"
    /\ designed.spec.order = MaxOrder
    /\ Len(designed.components) = MaxOrder
    /\ designed.components[2].type = "INDUCTOR"

\* The fitness the contract prescribes for a measurement vector: the sum over
\* the objectives of the signed, weighted value.
RECURSIVE SignedSum(_, _, _)
SignedSum(objectives, values, n) ==
    IF n = 0 THEN 0
    ELSE SignedSum(objectives, values, n - 1) +
         (CASE objectives[n].type = "MINIMIZE" -> 0 - objectives[n].weight * values[n]
            [] objectives[n].type = "MAXIMIZE" -> objectives[n].weight * values[n]
            [] objectives[n].type = "TARGET" ->
                  0 - objectives[n].weight *
                      (IF values[n] >= objectives[n].target_value
                       THEN values[n] - objectives[n].target_value
                       ELSE objectives[n].target_value - values[n]))

\* C16: every evaluateFitness call returns the sum over the objectives of
\* -weight * value (MINIMIZE), +weight * value (MAXIMIZE) and
\* -weight * |value - target| (TARGET) of the measurement vector, reads exactly
\* one measurement per objective, and calls the measurement function once.
C16_FitnessFormula ==
    [][\A e \in evaluated' \ evaluated :
          /\ Len(e.measured) = 1
          /\ e.fitness = SignedSum(objectives_, e.measured[1], Len(objectives_))
          /\ Len(e.read) = Len(objectives_)
          /\ \A i \in DOMAIN objectives_ : e.read[i] = i]_vars

C16_Witness ==
    /\ Len(objectives_) = 2
    /\ objectives_[1].type = "TARGET"
    /\ objectives_[2].type = "MINIMIZE"
    /\ objectives_[2].weight = 2
    /\ objectives_[1].weight = 2
    /\ \E e \in evaluated : /\ e.fitness = -100
                            /\ e.measured = << << 0, 10 >> >>
                            /\ e.individual # << >>

\* C14: the vector an optimizer returns is the best found: its fitness is at
\* least the fitness of every vector evaluated during that run.
C14_ReturnsBestEvaluated ==
    run.at = "done" =>
        \A e \in evaluated : Fitness(run.result, objectives_) >= e.fitness

\* What the contract calls an invalid configuration.
InvalidConfiguration ==
    \/ Len(parameters_) = 0
    \/ Len(objectives_) = 0
    \/ \E j \in DOMAIN parameters_ :
          parameters_[j].min_value >= parameters_[j].max_value

\* C17: an optimizer invoked on an invalid configuration is rejected before
\* it starts: the measurement function is not called even once.
C17_InvalidRejected ==
    (run.algorithm # "none" /\ InvalidConfiguration) => evaluated = {}

\* The Parameter vectors the optimizer holds: the registered parameters, the
\* members of the population or swarm (velocities included), and the result.
HeldVectors ==
    {parameters_} \cup
    (CASE run.algorithm = "GA" -> Range(run.population) \cup {run.result}
       [] run.algorithm = "PSO" ->
             Range(run.positions) \cup Range(run.velocities) \cup
             Range(run.best_positions) \cup {run.global_best, run.result}
       [] run.algorithm = "DE" -> Range(run.population) \cup {run.result}
       [] OTHER -> {})

\* C13: every Parameter the optimizer holds satisfies min <= current <= max.
C13_CurrentWithinBounds ==
    \A vector \in HeldVectors : \A j \in DOMAIN vector :
        /\ vector[j].min_value <= vector[j].current_value
        /\ vector[j].current_value <= vector[j].max_value

\* C15: every optimizer run terminates.  A run whose loop draws at random
\* until a test passes terminates only if some draw passes: whenever the
\* donor-selection loop of differential evolution is running, there is a
\* triple of donors that ends it.
C15_DonorLoopCanEnd ==
    (/\ run.algorithm = "DE" /\ run.at = "donors"
     /\ run.gen < run.generations /\ run.population_size > 0)
    => \E r \in Donors(run.population_size) : Distinct(r, run.i)

\* C18: optimizer runs are reproducible: two runs of the same optimizer with
\* the same parameters, objectives, arguments and measurement function (the
\* constructor takes no seed, so that is all a caller supplies) return the
\* same parameter vector.
C18_SameInputsSameResult ==
    (run.at = "done" /\ previous # NoRun) => run.result = previous.result

\* The memory a component keeps between calls: Capacitor::charge_,
\* Inductor::flux_, VoltageSource::current_time_.
Memory(component) ==
    << component.charge_, component.flux_, component.current_time_ >>

\* C23: a call analyze(f) made directly (outside performTransient) that
\* returns leaves every component's memory as it was: charge, flux and the
\* sources' internal time advance only across transient steps.
C23_AnalyzeKeepsMemory ==
    [][(/\ pc = "idle" /\ pc' = "idle" /\ calls' = calls + 1
        /\ last'.outcome = "returned" /\ ~last'.oob)
       => \A c \in DOMAIN components_ :
             Memory(components_'[c]) = Memory(components_[c])]_vars

\* C24: performTransient(stopTime, dt) advances its clock by dt per step,
\* stops at the first step after which the clock has reached stopTime, and on
\* return the analyzer clock time_ equals (number of steps performed) * dt
\* (looked at in runs where no index has left the matrix).
C24_ClockOnReturn ==
    (loop.kind = "tran" /\ pc \in {"tran", "idle"} /\ build = Unknown) =>
        LET steps == Len(loop.done)
        IN  /\ loop.t = steps * loop.dt
            /\ pc = "idle" =>
                  /\ steps * loop.dt >= loop.stop
                  /\ steps > 0 => (steps - 1) * loop.dt < loop.stop
                  /\ time_ = steps * loop.dt

\* C29: every node a pin of an added component is connected to is in the node
\* list nodes_ (so it has an unknown of its own), also when the caller
\* connected the pin before addComponent, and getNodeIndex answers -1 for such
\* a node only when it is the designated ground node.
C29_PinNodesAreListed ==
    \A c \in DOMAIN components_ : \A i \in 1..2 :
        LET node == components_[c].pins[i]
        IN  /\ node \in Range(nodes_)
            /\ getNodeIndex(nodes_, ground_node_, node) = NoIndex
                  => node = ground_node_

\* C30: whenever a generation of the genetic algorithm selects parents from a
\* population of one or more individuals, every index of the population,
\* the last one included, is among the indices tournamentSelect can draw, and
\* every individual of the population is among those it can return.
C30_EveryIndexSampled ==
    (/\ run.algorithm = "GA" /\ run.at = "evolve"
     /\ run.gen < run.generations /\ Len(run.population) >= 1) =>
        /\ TournamentDraws(Len(run.population)) = DOMAIN run.population
        /\ \A k \in DOMAIN run.population :
              run.population[k] \in
                 tournamentSelect(run.population,
                                  FitnessOf(run.population, objectives_))

\* C28: a generation of optimizeGeneticAlgorithm replaces the population by
\* exactly population_size individuals (odd sizes included); every tournament
\* is won by a sampled contestant of highest fitness, the fitness of
\* contestant k being that of the current population[k]; and every child is
\* a copy of such a winner, gene by gene, except where crossover put the other
\* parent's gene or mutation (only with a positive rate) redrew the gene
\* within its bounds.
C28_GenerationReplaces ==
    [][(/\ run.algorithm = "GA" /\ run.at = "evolve"
        /\ run'.algorithm = "GA" /\ run'.gen = run.gen + 1)
       => LET population == run.population
              fitness == [k \in DOMAIN population |->
                            Fitness(population[k], objectives_)]
              tournaments ==
                 [1..tournament_size -> TournamentDraws(Len(population))]
              Highest(k, t) ==
                 /\ k \in Range(t)
                 /\ \A i \in DOMAIN t : fitness[k] >= fitness[t[i]]
              parents ==
                 { population[k] : k \in { w \in DOMAIN population :
                                             \E t \in tournaments : Highest(w, t) } }
              Copied(child, p1, p2) ==
                 /\ DOMAIN child = DOMAIN p1
                 /\ \A j \in DOMAIN child :
                       /\ [child[j] EXCEPT !.current_value = 0]
                             = [p1[j] EXCEPT !.current_value = 0]
                       /\ \/ child[j].current_value = p1[j].current_value
                          \/ /\ run.crossover_rate > 0
                             /\ child[j].current_value = p2[j].current_value
                          \/ /\ run.mutation_rate > 0
                             /\ child[j].current_value >= child[j].min_value
                             /\ child[j].current_value <= child[j].max_value
          IN  /\ Len(run'.population) = run.population_size
              /\ run.population_size >= 1 =>
                    /\ \A t \in tournaments :
                          Highest(TournamentWinner(t, fitness, 2, t[1]), t)
                    /\ \A k \in DOMAIN run'.population :
                          \E p1 \in parents : \E p2 \in parents :
                             Copied(run'.population[k], p1, p2)]_vars

\* C28's case: a generation has replaced a population of odd size 3 whose
\* individuals are told apart by one objective over one parameter, and the
\* new population holds two different individuals.
C28_Witness ==
    /\ run.algorithm = "GA" /\ run.at = "evolve" /\ run.gen >= 1
    /\ run.population_size = 3 /\ Len(run.population) = 3
    /\ Len(parameters_) = 1 /\ Len(objectives_) = 1
    /\ run.population[1] # run.population[2]

\* C25: in DifferentialEvolution::optimize every trial is built from three
\* donors r1, r2, r3 that are indices of the population, pairwise distinct
\* and different from the target i; the trial replaces population[i] only
\* when its fitness is strictly greater, no other slot changes, no slot's
\* fitness ever decreases, and fitness[k] is always the fitness of the
\* current population[k].
C25_GreedyReplacement ==
    /\ [](run.algorithm = "DE" =>
             \A k \in DOMAIN run.population :
                run.fitness[k] = Fitness(run.population[k], objectives_))
    /\ [][(/\ run.algorithm = "DE" /\ run.at = "donors" /\ run'.algorithm = "DE"
           /\ << run'.i, run'.gen >> # << run.i, run.gen >>)
          => LET i == run.i + 1
                 r == run'.r
             IN  /\ Len(r) = 3
                 /\ \A a \in 1..3 : r[a] \in 0..(run.population_size - 1)
                                    /\ r[a] # run.i
                 /\ \A a, b \in 1..3 : a # b => r[a] # r[b]
                 /\ \A k \in DOMAIN run.population :
                       /\ run'.fitness[k] >= run.fitness[k]
                       /\ k # i => run'.population[k] = run.population[k]
                 /\ run'.population[i] # run.population[i]
                       => run'.fitness[i] > run.fitness[i]]_vars

\* C25's case: trials have been made and one of them has replaced its target:
\* a member holds 80, a value only recombination 40 + 1 * (40 - 0) produces.
C25_Witness ==
    /\ run.algorithm = "DE" /\ run.at = "donors"
    /\ Len(run.r) = 3 /\ run.i >= 1
    /\ Len(parameters_) = 1 /\ Len(objectives_) = 1
    /\ \E k \in DOMAIN run.population : run.population[k][1].current_value = 80

\* C27: in SimulatedAnnealing::optimize the temperature changes only at the
\* end of a batch of iterations_per_temp moves, and then to temp *
\* cooling_rate; a neighbour of lower energy than the current solution is
\* always accepted, one of equal or higher energy only if the Metropolis draw
\* can accept it, and a rejected neighbour changes nothing; best_energy <=
\* current_energy after every move; best_energy is the lowest energy of all
\* solutions evaluated so far, and the solution returned is that best.
C27_AnnealingKeepsBest ==
    /\ [](run.algorithm = "SA" =>
             /\ run.best_energy <= run.current_energy
             /\ run.best_energy = -Fitness(run.best, objectives_)
             /\ \A e \in evaluated : run.best_energy <= -e.fitness
             /\ \E e \in evaluated : e.individual = run.best
             /\ run.at = "done" => run.result = run.best)
    /\ [][(run.algorithm = "SA" /\ run.at = "anneal" /\ run'.algorithm = "SA"
           /\ run'.at = "anneal")
          => IF run'.i = run.i + 1
             THEN LET neighbor_energy == run'.moved.energy
                      accepted == run'.moved.accepted
                  IN  /\ run.i < run.iterations_per_temp
                      /\ run'.temp = run.temp
                      /\ neighbor_energy < run.current_energy => accepted
                      /\ (accepted /\ neighbor_energy >= run.current_energy)
                            => TRUE \in Metropolis(neighbor_energy
                                                     - run.current_energy,
                                                   run.temp)
                      /\ accepted => run'.current_energy = neighbor_energy
                      /\ ~accepted =>
                            /\ run'.current = run.current
                            /\ run'.current_energy = run.current_energy
                            /\ run'.best = run.best
             ELSE /\ run.i = run.iterations_per_temp
                  /\ run'.temp * 100 = run.temp * run.cooling_rate
                  /\ run'.i = 0
                  /\ run'.current = run.current /\ run'.best = run.best]_vars

\* C27's case: a run of two batches of two moves has returned; a better
\* neighbour was accepted and later a worse one, so that the best solution
\* returned is not the current one.
C27_Witness ==
    /\ run.algorithm = "SA" /\ run.at = "done"
    /\ run.iterations_per_temp = 2 /\ run.temp = 25 /\ run.cooling_rate = 50
    /\ Len(parameters_) = 1 /\ Len(objectives_) = 1
    /\ run.best_energy < run.current_energy
    /\ run.result = run.best /\ run.result # run.current
    /\ Cardinality(evaluated) >= 3

\* The lowest and the highest objective value of a simplex.
LowestValue(values) ==
    CHOOSE v \in Range(values) : \A w \in Range(values) : v <= w
HighestValue(values) ==
    CHOOSE v \in Range(values) : \A w \in Range(values) : v >= w

\* C26: in a Nelder-Mead iteration reflection, expansion and contraction
\* replace the worst vertex only; a shrink leaves a vertex of lowest value
\* where it is and moves every other vertex toward it by the factor sigma;
\* the lowest value of the simplex never increases over an iteration; an
\* iteration is made only while fewer than max_iterations were made and the
\* spread (worst value - best value) is not below the tolerance, and the
\* loop ends only when one of the two fails.
C26_SimplexSteps ==
    [][(/\ run.algorithm = "NM" /\ run.at = "simplex"
        /\ run'.algorithm = "NM" /\ run'.at \in {"simplex", "done"})
       => LET spread == HighestValue(run.values) - LowestValue(run.values)
          IN  IF run'.at = "done"
              THEN \/ run.iterations >= run.max_iterations
                   \/ spread < run.tolerance
              ELSE LET worst == run'.order[Len(run'.order)]
                   IN  /\ run.iterations < run.max_iterations
                       /\ ~(spread < run.tolerance)
                       /\ run'.kind \in {"reflection", "expansion", "contraction"}
                             => /\ run.values[worst] = HighestValue(run.values)
                                /\ \A k \in DOMAIN run.simplex :
                                      k # worst =>
                                         /\ run'.simplex[k] = run.simplex[k]
                                         /\ run'.values[k] = run.values[k]
                       /\ run'.kind = "shrink"
                             => \E best \in DOMAIN run.simplex :
                                   /\ run.values[best] = LowestValue(run.values)
                                   /\ run'.simplex =
                                         ShrinkToward(run.simplex, best, run.sigma)
                       /\ LowestValue(run'.values) <= LowestValue(run.values)]_vars

\* C22: an analyzeSensitivity call whose nominal analyze() came back returns,
\* with exactly one result per named parameter, in input order.  (Component
\* parameters are written by the call only through the pointer that
\* findComponentByParameter returns.)
C22_OneResultPerName ==
    (sensitivity.outcome # "none" /\ last.outcome = "returned") =>
        /\ sensitivity.outcome = "returned"
        /\ sensitivity.results = sensitivity.parameters

\* How far sample k is from 3 dB below the maximum.
FromCutoff(r, k) ==
    Abs(r.magnitude[k]
        - (MaxMagnitude(r.magnitude, 2, r.magnitude[1]) - ThreeDB))

\* C21: for a response of two or more samples, bandwidth and q_factor are
\* set, from two samples a < b (any two of the list, the last included) than
\* which no other sample is nearer to max_magnitude - 3 dB: bandwidth =
\* f[b] - f[a] and q_factor = sqrt(f[a] * f[b]) / bandwidth.
C21_BandwidthFromNearest ==
    (response.outcome = "returned" /\ Len(response.frequencies) >= 2) =>
        /\ response.bandwidth # Unset
        /\ response.q_factor # Unset
        /\ \E a, b \in DOMAIN response.frequencies :
              /\ a < b
              /\ \A k \in DOMAIN response.frequencies \ {a, b} :
                    /\ FromCutoff(response, k) >= FromCutoff(response, a)
                    /\ FromCutoff(response, k) >= FromCutoff(response, b)
              /\ response.bandwidth =
                    Set(response.frequencies[b] - response.frequencies[a])
              /\ response.q_factor =
                    Set([product |-> response.frequencies[a]
                                     * response.frequencies[b],
                         bandwidth |-> response.frequencies[b]
                                       - response.frequencies[a]])

====
